---- MODULE Spec2Model ----
(***************************************************************************)
(* CareerCraft scoring and matching engine                                 *)
(* (src/consumer_careercraft_v2.1.py, src/consumer_careercraft_v2.py).     *)
(*                                                                         *)
(* Strings that the code inspects character by character (practice         *)
(* frequency labels) are sequences of one-character strings.  Python       *)
(* floats are exact rationals <<n, d>> in lowest terms with d > 0; an      *)
(* uncaught ZeroDivisionError is the value <<0, 0>>.  Python dicts are     *)
(* sequences of <<key, value>> pairs in insertion order, except the two    *)
(* session profiles, which are functions on the set of their keys.         *)
(***************************************************************************)
EXTENDS Integers, Sequences, FiniteSets, TLC

VARIABLES
    CAREER_DATA,         \* the career catalog, in declaration order
    SKILLS_DATA,         \* the skill catalog, in declaration order
    onboarding_step,     \* st.session_state.onboarding_step
    onboarding_complete, \* st.session_state.onboarding_complete
    user_profile,        \* st.session_state.user_profile  : dict
    user_skills,         \* st.session_state.user_skills   : skill -> rating
    practice_freq,       \* st.session_state.practice_freq : skill -> label
    target_careers,      \* st.session_state.target_careers: list of career names
    chat_history,        \* st.session_state.chat_history
    quick_mode,          \* st.session_state.quick_mode
    pc,                  \* "call" before the operation ran, "done" after it
    op,                  \* the operation being called
    arg,                 \* its explicit arguments
    ret                  \* its return value (meaningful when pc = "done")

vars == <<CAREER_DATA, SKILLS_DATA, onboarding_step, onboarding_complete,
          user_profile, user_skills, practice_freq, target_careers,
          chat_history, quick_mode, pc, op, arg, ret>>

catalogs == <<CAREER_DATA, SKILLS_DATA>>

wizard == <<onboarding_step, onboarding_complete, user_profile, chat_history,
            quick_mode>>

session == <<catalogs, wizard, user_skills, practice_freq, target_careers>>

-----------------------------------------------------------------------------
(* Bounds *)

MaxPad == 1          \* longest run of whitespace put around a label
MaxCareers == 2      \* most careers in a catalog
MaxTargets == 2      \* most target careers selected

-----------------------------------------------------------------------------
(* Exact rational arithmetic standing for Python float arithmetic *)

Abs(x) == IF x < 0 THEN -x ELSE x

RECURSIVE GCD(_, _)
GCD(a, b) == IF b = 0 THEN a ELSE GCD(b, a % b)

Rat(n, d) == LET g == GCD(Abs(n), d) IN <<n \div g, d \div g>>

Num(i) == <<i, 1>>

ZeroDivisionError == <<0, 0>>

Raised(x) == x[2] = 0

RAdd(a, b) == Rat(a[1] * b[2] + b[1] * a[2], a[2] * b[2])

RMul(a, b) == Rat(a[1] * b[1], a[2] * b[2])

RDiv(a, b) ==
    IF b[1] = 0 THEN ZeroDivisionError
    ELSE IF b[1] > 0 THEN Rat(a[1] * b[2], a[2] * b[1])
    ELSE Rat(-(a[1] * b[2]), -(a[2] * b[1]))

RLt(a, b) == a[1] * b[2] < b[1] * a[2]

RLe(a, b) == a[1] * b[2] <= b[1] * a[2]

\* Python's min(a, b): b only when b < a
RMin(a, b) == IF RLt(b, a) THEN b ELSE a

-----------------------------------------------------------------------------
(* Strings as character sequences: str.lower() and str.strip() *)

Lowers == <<"a","b","c","d","e","f","g","h","i","j","k","l","m",
            "n","o","p","q","r","s","t","u","v","w","x","y","z">>

Uppers == <<"A","B","C","D","E","F","G","H","I","J","K","L","M",
            "N","O","P","Q","R","S","T","U","V","W","X","Y","Z">>

LowerChar(c) ==
    IF \E i \in 1..26 : Uppers[i] = c
    THEN Lowers[CHOOSE i \in 1..26 : Uppers[i] = c]
    ELSE c

UpperChar(c) ==
    IF \E i \in 1..26 : Lowers[i] = c
    THEN Uppers[CHOOSE i \in 1..26 : Lowers[i] = c]
    ELSE c

Whitespace == {" ", "\t", "\n", "\r"}

lower(s) == [i \in 1..Len(s) |-> LowerChar(s[i])]

RECURSIVE lstrip(_)
lstrip(s) == IF s # <<>> /\ Head(s) \in Whitespace THEN lstrip(Tail(s)) ELSE s

RECURSIVE rstrip(_)
rstrip(s) ==
    IF s # <<>> /\ s[Len(s)] \in Whitespace
    THEN rstrip(SubSeq(s, 1, Len(s) - 1))
    ELSE s

strip(s) == rstrip(lstrip(s))

\* Python's None where a label is expected
None == <<"None">>

-----------------------------------------------------------------------------
(* Practice frequency weighting *)

often == <<"o","f","t","e","n">>
weekly == <<"w","e","e","k","l","y">>
daily == <<"d","a","i","l","y">>
weeklyPlus == <<"w","e","e","k","l","y","+">>
sometimes == <<"s","o","m","e","t","i","m","e","s">>
monthly == <<"m","o","n","t","h","l","y">>
aFewTimes == <<"a"," ","f","e","w"," ","t","i","m","e","s">>
rarely == <<"r","a","r","e","l","y">>
never == <<"n","e","v","e","r">>
rarelyNever == <<"r","a","r","e","l","y","/","n","e","v","e","r">>

\* the three options of the practice selectbox in onboarding step 3
OptOften == <<"O","f","t","e","n"," ","(","w","e","e","k","l","y","+",")">>
OptSometimes == <<"S","o","m","e","t","i","m","e","s">>
OptRarelyNever == <<"R","a","r","e","l","y","/","N","e","v","e","r">>

\* mutant: the label is lower-cased but not trimmed
practice_weight_NoStrip(freq) ==
    LET f == lower(IF freq = None \/ freq = <<>> THEN <<>> ELSE freq)
    IN  IF f \in {often, weekly, daily, weeklyPlus} THEN Rat(12, 10)
        ELSE IF f \in {sometimes, monthly, aFewTimes} THEN Rat(10, 10)
        ELSE IF f \in {rarely, never, rarelyNever} THEN Rat(8, 10)
        ELSE Rat(10, 10)

\* mutant: an unrecognised label is weighted like "rarely"
practice_weight_DefaultLow(freq) ==
    LET f == strip(lower(IF freq = None \/ freq = <<>> THEN <<>> ELSE freq))
    IN  IF f \in {often, weekly, daily, weeklyPlus} THEN Rat(12, 10)
        ELSE IF f \in {sometimes, monthly, aFewTimes} THEN Rat(10, 10)
        ELSE Rat(8, 10)

practice_weight_NoLower(freq) ==
    LET f == strip(IF freq = None \/ freq = <<>> THEN <<>> ELSE freq)
    IN  IF f \in {often, weekly, daily, weeklyPlus} THEN Rat(12, 10)
        ELSE IF f \in {sometimes, monthly, aFewTimes} THEN Rat(10, 10)
        ELSE IF f \in {rarely, never, rarelyNever} THEN Rat(8, 10)
        ELSE Rat(10, 10)

practice_weight(freq) ==
    LET f == strip(lower(IF freq = None \/ freq = <<>> THEN <<>> ELSE freq))
    IN  IF f \in {often, weekly, daily, weeklyPlus} THEN Rat(12, 10)
        ELSE IF f \in {sometimes, monthly, aFewTimes} THEN Rat(10, 10)
        ELSE IF f \in {rarely, never, rarelyNever} THEN Rat(8, 10)
        ELSE Rat(10, 10)

\* mutant: the product is not capped at 100
calculate_effective_level_NoCap(base_level, freq) ==
    RMul(Num(base_level), practice_weight(freq))

calculate_effective_level(base_level, freq) ==
    RMin(Num(100), RMul(Num(base_level), practice_weight(freq)))

\* mutant: the lower bounds are exclusive
get_readiness_band_Exclusive(readiness_score) ==
    IF RLt(Num(75), readiness_score)
    THEN <<"balanced", "Balanced path (about 1 in 2 if you follow through)", "#2ecc71">>
    ELSE IF RLt(Num(55), readiness_score)
    THEN <<"stretch", "Stretch path (about 1 in 3-4 if you commit seriously)", "#f39c12">>
    ELSE <<"long_shot", "Long-shot path (about 1 in 5+; consider alternatives)", "#e74c3c">>

get_readiness_band(readiness_score) ==
    IF RLe(Num(75), readiness_score)
    THEN <<"balanced", "Balanced path (about 1 in 2 if you follow through)", "#2ecc71">>
    ELSE IF RLe(Num(55), readiness_score)
    THEN <<"stretch", "Stretch path (about 1 in 3-4 if you commit seriously)", "#f39c12">>
    ELSE <<"long_shot", "Long-shot path (about 1 in 5+; consider alternatives)", "#e74c3c">>

-----------------------------------------------------------------------------
(* Dicts in insertion order: sequences of <<key, value>> pairs *)

Keys(d) == {d[i][1] : i \in DOMAIN d}

Lookup(d, k) == d[CHOOSE i \in DOMAIN d : d[i][1] = k][2]

\* dict.get(k, default) on a session profile
Get(f, k, default) == IF k \in DOMAIN f THEN f[k] ELSE default

-----------------------------------------------------------------------------
(* Helper functions: gaps and career matches *)

\* mutant: the gap is not clamped at 0
GapRecord_Unclamped(user_level, required_level) ==
    LET gap == required_level - user_level
    IN  [user_level |-> user_level,
         required_level |-> required_level,
         gap |-> gap,
         priority |-> IF gap > 30 THEN "High" ELSE IF gap > 15 THEN "Medium" ELSE "Low"]

\* mutant: the thresholds are inclusive
GapRecord_Inclusive(user_level, required_level) ==
    LET gap == required_level - user_level
    IN  [user_level |-> user_level,
         required_level |-> required_level,
         gap |-> IF gap > 0 THEN gap ELSE 0,
         priority |-> IF gap >= 30 THEN "High" ELSE IF gap >= 15 THEN "Medium" ELSE "Low"]

GapRecord(user_level, required_level) ==
    LET gap == required_level - user_level
    IN  [user_level |-> user_level,
         required_level |-> required_level,
         gap |-> IF gap > 0 THEN gap ELSE 0,
         priority |-> IF gap > 30 THEN "High" ELSE IF gap > 15 THEN "Medium" ELSE "Low"]

\* the loop "for skill, required_level in career_skills.items()"
\* the gap taken from the practice-adjusted level, rounded down
RECURSIVE GapLoop_EffectiveLevel(_, _, _)
GapLoop_EffectiveLevel(us, career_skills, gaps) ==
    IF career_skills = <<>> THEN gaps
    ELSE LET skill == Head(career_skills)[1]
             required_level == Head(career_skills)[2]
             weight == practice_weight(Get(practice_freq, skill, OptSometimes))
             adjusted == (Get(us, skill, 0) * weight[1]) \div weight[2]
             user_level == IF adjusted > 100 THEN 100 ELSE adjusted
         IN  GapLoop_EffectiveLevel(us, Tail(career_skills),
                     Append(gaps, <<skill, GapRecord(user_level, required_level)>>))

RECURSIVE GapLoop(_, _, _)
GapLoop(us, career_skills, gaps) ==
    IF career_skills = <<>> THEN gaps
    ELSE LET skill == Head(career_skills)[1]
             required_level == Head(career_skills)[2]
             user_level == Get(us, skill, 0)
         IN  GapLoop(us, Tail(career_skills),
                     Append(gaps, <<skill, GapRecord(user_level, required_level)>>))

\* mutant: no membership test, so an unknown name raises KeyError
calculate_skill_gaps_NoGuard(us, target_career) ==
    IF target_career \notin Keys(CAREER_DATA) THEN <<<<"KeyError", target_career>>>>
    ELSE GapLoop(us, Lookup(CAREER_DATA, target_career).skills, <<>>)

calculate_skill_gaps(us, target_career) ==
    IF target_career \notin Keys(CAREER_DATA) THEN <<>>
    ELSE GapLoop(us, Lookup(CAREER_DATA, target_career).skills, <<>>)

\* Medium gaps counted as well
HighGaps_CountsMedium(gaps) ==
    Cardinality({i \in DOMAIN gaps : gaps[i][2].priority \in {"High", "Medium"}})

\* sum(1 for g in gaps.values() if g["priority"] == "High")
HighGaps(gaps) == Cardinality({i \in DOMAIN gaps : gaps[i][2].priority = "High"})

\* effective_level / required, not capped at 1.0
SkillMatch_NoMin(effective_level, required) ==
    IF required > 0 THEN RDiv(effective_level, Num(required)) ELSE Num(1)

\* a level above the requirement counts against the match
SkillMatch_Overqualified(effective_level, required) ==
    IF required > 0
    THEN IF RLt(Num(required), effective_level)
         THEN RDiv(Num(required), effective_level)
         ELSE RDiv(effective_level, Num(required))
    ELSE Num(1)

\* min(effective_level / required, 1.0) if required > 0 else 1.0
SkillMatch(effective_level, required) ==
    IF required > 0 THEN RMin(RDiv(effective_level, Num(required)), Num(1)) ELSE Num(1)

\* mutant: the match is taken from the raw rating
RECURSIVE MatchLoop_RawLevel(_, _, _, _)
MatchLoop_RawLevel(us, pf, skills, acc) ==
    IF skills = <<>> THEN acc
    ELSE LET skill == Head(skills)[1]
             required == Head(skills)[2]
             user_level == Get(us, skill, 0)
             weight == Rat(required, 100)
             match == SkillMatch(Num(user_level), required)
         IN  MatchLoop_RawLevel(us, pf, Tail(skills),
                                <<RAdd(acc[1], RMul(match, weight)), RAdd(acc[2], weight)>>)

RECURSIVE MatchLoop_DefaultOften(_, _, _, _)
MatchLoop_DefaultOften(us, pf, skills, acc) ==
    IF skills = <<>> THEN acc
    ELSE LET skill == Head(skills)[1]
             required == Head(skills)[2]
             user_level == Get(us, skill, 0)
             freq == Get(pf, skill, often)
             effective_level == calculate_effective_level(user_level, freq)
             weight == Rat(required, 100)
             match == SkillMatch(effective_level, required)
         IN  MatchLoop_DefaultOften(us, pf, Tail(skills),
                       <<RAdd(acc[1], RMul(match, weight)), RAdd(acc[2], weight)>>)

RECURSIVE MatchLoop_UnitWeight(_, _, _, _)
MatchLoop_UnitWeight(us, pf, skills, acc) ==
    IF skills = <<>> THEN acc
    ELSE LET skill == Head(skills)[1]
             required == Head(skills)[2]
             user_level == Get(us, skill, 0)
             freq == Get(pf, skill, OptSometimes)
             effective_level == calculate_effective_level(user_level, freq)
             weight == Num(1)
             match == SkillMatch(effective_level, required)
         IN  MatchLoop_UnitWeight(us, pf, Tail(skills),
                       <<RAdd(acc[1], RMul(match, weight)), RAdd(acc[2], weight)>>)

\* the inner loop of get_career_matches; acc is <<total_match, total_weight>>
RECURSIVE MatchLoop(_, _, _, _)
MatchLoop(us, pf, skills, acc) ==
    IF skills = <<>> THEN acc
    ELSE LET skill == Head(skills)[1]
             required == Head(skills)[2]
             user_level == Get(us, skill, 0)
             freq == Get(pf, skill, OptSometimes)
             effective_level == calculate_effective_level(user_level, freq)
             weight == Rat(required, 100)
             match == SkillMatch(effective_level, required)
         IN  MatchLoop(us, pf, Tail(skills),
                       <<RAdd(acc[1], RMul(match, weight)), RAdd(acc[2], weight)>>)

MatchPct(us, pf, skills) ==
    LET acc == MatchLoop(us, pf, skills, <<Num(0), Num(0)>>)
    IN  IF RLt(Num(0), acc[2]) THEN RMul(RDiv(acc[1], acc[2]), Num(100)) ELSE Num(0)

RECURSIVE InsertDesc_Unstable(_, _)
InsertDesc_Unstable(x, sorted) ==
    IF sorted = <<>> THEN <<x>>
    ELSE IF RLe(Head(sorted)[1], x[1]) THEN <<x>> \o sorted
    ELSE <<Head(sorted)>> \o InsertDesc_Unstable(x, Tail(sorted))

\* list.sort(key=..., reverse=True) on a list of <<key, item>> pairs:
\* descending by key, items with equal keys keep their order
RECURSIVE InsertDesc(_, _)
InsertDesc(x, sorted) ==
    IF sorted = <<>> THEN <<x>>
    ELSE IF RLt(Head(sorted)[1], x[1]) THEN <<x>> \o sorted
    ELSE <<Head(sorted)>> \o InsertDesc(x, Tail(sorted))

RECURSIVE SortDesc(_)
SortDesc(keyed) ==
    IF keyed = <<>> THEN <<>>
    ELSE InsertDesc(keyed[Len(keyed)], SortDesc(SubSeq(keyed, 1, Len(keyed) - 1)))

Items(keyed) == [i \in 1..Len(keyed) |-> keyed[i][2]]

RECURSIVE CareerLoop_NoFilter(_, _, _, _, _)
CareerLoop_NoFilter(us, pf, target_industries, careers, matches) ==
    IF careers = <<>> THEN matches
    ELSE LET career == Head(careers)[1]
             data == Head(careers)[2]
         IN  CareerLoop_NoFilter(us, pf, target_industries, Tail(careers),
                    Append(matches,
                      [career |-> career,
                       category |-> data.category,
                       match_pct |-> MatchPct(us, pf, data.skills),
                       salary |-> data.median_salary,
                       growth |-> data.growth_rate,
                       high_skill_gaps |-> HighGaps(calculate_skill_gaps(us, career)),
                       education |-> data.education,
                       time_to_entry |-> data.time_to_entry]))

\* the loop "for career, data in CAREER_DATA.items()"
RECURSIVE CareerLoop(_, _, _, _, _)
CareerLoop(us, pf, target_industries, careers, matches) ==
    IF careers = <<>> THEN matches
    ELSE LET career == Head(careers)[1]
             data == Head(careers)[2]
         IN  IF data.category \in target_industries
             THEN CareerLoop(us, pf, target_industries, Tail(careers),
                    Append(matches,
                      [career |-> career,
                       category |-> data.category,
                       match_pct |-> MatchPct(us, pf, data.skills),
                       salary |-> data.median_salary,
                       growth |-> data.growth_rate,
                       high_skill_gaps |-> HighGaps(calculate_skill_gaps(us, career)),
                       education |-> data.education,
                       time_to_entry |-> data.time_to_entry]))
             ELSE CareerLoop(us, pf, target_industries, Tail(careers), matches)

get_career_matches(us, target_industries) ==
    LET matches == CareerLoop(us, practice_freq, target_industries, CAREER_DATA, <<>>)
    IN  Items(SortDesc([i \in 1..Len(matches) |-> <<matches[i].match_pct, matches[i]>>]))

-----------------------------------------------------------------------------
(* Readiness in the sidebar quick stats and on the dashboard (v2.1), and    *)
(* the v2 versions of the matcher and the sidebar, which read raw ratings   *)

\* mutant: the match is taken from the raw rating
RECURSIVE QuickStatsLoop_RawLevel(_, _, _, _)
QuickStatsLoop_RawLevel(us, pf, career_skills, total_match) ==
    IF career_skills = <<>> THEN total_match
    ELSE LET skill == Head(career_skills)[1]
             required == Head(career_skills)[2]
             user_level == Get(us, skill, 0)
             match == SkillMatch(Num(user_level), required)
         IN  QuickStatsLoop_RawLevel(us, pf, Tail(career_skills), RAdd(total_match, match))

\* the inner loop of the sidebar quick stats: total_match += match
RECURSIVE QuickStatsLoop(_, _, _, _)
QuickStatsLoop(us, pf, career_skills, total_match) ==
    IF career_skills = <<>> THEN total_match
    ELSE LET skill == Head(career_skills)[1]
             required == Head(career_skills)[2]
             user_level == Get(us, skill, 0)
             freq == Get(pf, skill, OptSometimes)
             effective_level == calculate_effective_level(user_level, freq)
             match == SkillMatch(effective_level, required)
         IN  QuickStatsLoop(us, pf, Tail(career_skills), RAdd(total_match, match))

\* (total_match / len(career_skills)) * 100, unguarded
QuickStatsScore(us, pf, career_skills) ==
    LET q == RDiv(QuickStatsLoop(us, pf, career_skills, Num(0)), Num(Len(career_skills)))
    IN  IF Raised(q) THEN ZeroDivisionError ELSE RMul(q, Num(100))

\* the loop "for c in target_careers"; it stops at the first exception,
\* which is then the last element of the list
RECURSIVE QuickStatsScores(_, _, _, _)
QuickStatsScores(us, pf, targets, readiness_scores) ==
    IF targets = <<>> THEN readiness_scores
    ELSE IF Head(targets) \notin Keys(CAREER_DATA)
    THEN QuickStatsScores(us, pf, Tail(targets), readiness_scores)
    ELSE LET score == QuickStatsScore(us, pf, Lookup(CAREER_DATA, Head(targets)).skills)
         IN  IF Raised(score) THEN Append(readiness_scores, score)
             ELSE QuickStatsScores(us, pf, Tail(targets), Append(readiness_scores, score))

RECURSIVE RSum(_)
RSum(xs) == IF xs = <<>> THEN Num(0) ELSE RAdd(Head(xs), RSum(Tail(xs)))

\* np.mean of a non-empty list
Mean(xs) == RDiv(RSum(xs), Num(Len(xs)))

sidebar_quick_stats ==
    IF target_careers = <<>> THEN [shown |-> FALSE, exception |-> "none"]
    ELSE LET readiness_scores ==
                 QuickStatsScores(user_skills, practice_freq, target_careers, <<>>)
         IN  IF readiness_scores # <<>> /\ Raised(readiness_scores[Len(readiness_scores)])
             THEN [shown |-> FALSE, exception |-> "ZeroDivisionError"]
             ELSE LET avg_readiness ==
                          IF readiness_scores # <<>> THEN Mean(readiness_scores) ELSE Num(0)
                  IN  [shown |-> TRUE, exception |-> "none",
                       readiness_scores |-> readiness_scores,
                       avg_readiness |-> avg_readiness,
                       band |-> get_readiness_band(avg_readiness)]

\* the inner loop of the dashboard: it walks the gap records
RECURSIVE DashboardLoop(_, _, _)
DashboardLoop(pf, gaps, total_match) ==
    IF gaps = <<>> THEN total_match
    ELSE LET skill == Head(gaps)[1]
             gap_info == Head(gaps)[2]
             freq == Get(pf, skill, OptSometimes)
             effective == calculate_effective_level(gap_info.user_level, freq)
             required == gap_info.required_level
             match == SkillMatch(effective, required)
         IN  DashboardLoop(pf, Tail(gaps), RAdd(total_match, match))

DashboardCard(us, pf, career) ==
    LET gaps == calculate_skill_gaps(us, career)
        total_match == DashboardLoop(pf, gaps, Num(0))
        readiness == IF gaps # <<>>
                     THEN RMul(RDiv(total_match, Num(Len(gaps))), Num(100))
                     ELSE Num(0)
    IN  [career |-> career,
         readiness |-> readiness,
         band |-> get_readiness_band(readiness),
         high_gaps |-> HighGaps(gaps)]

\* the loop "for i, career in enumerate(target_careers)"
RECURSIVE DashboardCards(_, _, _, _)
DashboardCards(us, pf, targets, cards) ==
    IF targets = <<>> THEN cards
    ELSE IF Head(targets) \notin Keys(CAREER_DATA)
    THEN DashboardCards(us, pf, Tail(targets), cards)
    ELSE DashboardCards(us, pf, Tail(targets),
                        Append(cards, DashboardCard(us, pf, Head(targets))))

dashboard_readiness == DashboardCards(user_skills, practice_freq, target_careers, <<>>)

\* v2: the inner loop of get_career_matches, on the raw rating
RECURSIVE MatchLoopV2(_, _, _)
MatchLoopV2(us, skills, acc) ==
    IF skills = <<>> THEN acc
    ELSE LET skill == Head(skills)[1]
             required == Head(skills)[2]
             user_level == Get(us, skill, 0)
             weight == Rat(required, 100)
             match == SkillMatch(Num(user_level), required)
         IN  MatchLoopV2(us, Tail(skills),
                         <<RAdd(acc[1], RMul(match, weight)), RAdd(acc[2], weight)>>)

MatchPctV2(us, skills) ==
    LET acc == MatchLoopV2(us, skills, <<Num(0), Num(0)>>)
    IN  IF RLt(Num(0), acc[2]) THEN RMul(RDiv(acc[1], acc[2]), Num(100)) ELSE Num(0)

RECURSIVE CareerLoopV2(_, _, _, _)
CareerLoopV2(us, target_industries, careers, matches) ==
    IF careers = <<>> THEN matches
    ELSE LET career == Head(careers)[1]
             data == Head(careers)[2]
         IN  IF data.category \in target_industries
             THEN CareerLoopV2(us, target_industries, Tail(careers),
                    Append(matches,
                      [career |-> career,
                       category |-> data.category,
                       match_pct |-> MatchPctV2(us, data.skills),
                       salary |-> data.median_salary,
                       growth |-> data.growth_rate,
                       high_skill_gaps |-> HighGaps(calculate_skill_gaps(us, career)),
                       education |-> data.education,
                       time_to_entry |-> data.time_to_entry]))
             ELSE CareerLoopV2(us, target_industries, Tail(careers), matches)

get_career_matches_v2(us, target_industries) ==
    LET matches == CareerLoopV2(us, target_industries, CAREER_DATA, <<>>)
    IN  Items(SortDesc([i \in 1..Len(matches) |-> <<matches[i].match_pct, matches[i]>>]))

\* v2: sum(min(user_skills.get(s, 0) / r, 1) for s, r in skills.items());
\* the division is unguarded, so the sum raises on a requirement of 0
RECURSIVE QuickStatsSumV2(_, _)
QuickStatsSumV2(us, career_skills) ==
    IF career_skills = <<>> THEN Num(0)
    ELSE LET q == RDiv(Num(Get(us, Head(career_skills)[1], 0)), Num(Head(career_skills)[2]))
             rest == QuickStatsSumV2(us, Tail(career_skills))
         IN  IF Raised(q) \/ Raised(rest) THEN ZeroDivisionError
             ELSE RAdd(RMin(q, Num(1)), rest)

QuickStatsScoreV2(us, career_skills) ==
    LET total == QuickStatsSumV2(us, career_skills)
        q == IF Raised(total) THEN total ELSE RDiv(total, Num(Len(career_skills)))
    IN  IF Raised(q) THEN ZeroDivisionError ELSE RMul(q, Num(100))

RECURSIVE QuickStatsScoresV2(_, _, _)
QuickStatsScoresV2(us, targets, scores) ==
    IF targets = <<>> THEN scores
    ELSE IF Head(targets) \notin Keys(CAREER_DATA)
    THEN QuickStatsScoresV2(us, Tail(targets), scores)
    ELSE LET score == QuickStatsScoreV2(us, Lookup(CAREER_DATA, Head(targets)).skills)
         IN  IF Raised(score) THEN Append(scores, score)
             ELSE QuickStatsScoresV2(us, Tail(targets), Append(scores, score))

\* np.mean([]) is nan
NaN == <<1, 0>>

sidebar_quick_stats_v2 ==
    IF target_careers = <<>> THEN [shown |-> FALSE, exception |-> "none"]
    ELSE LET scores == QuickStatsScoresV2(user_skills, target_careers, <<>>)
         IN  IF scores # <<>> /\ Raised(scores[Len(scores)])
             THEN [shown |-> FALSE, exception |-> "ZeroDivisionError"]
             ELSE [shown |-> TRUE, exception |-> "none",
                   readiness_scores |-> scores,
                   avg_match |-> IF scores = <<>> THEN NaN ELSE Mean(scores)]

-----------------------------------------------------------------------------
(* Course and ROI recommender *)

calculate_skill_roi_Clamped(skill_name, current_level, target_level) ==
    IF skill_name \notin Keys(SKILLS_DATA) THEN None
    ELSE LET skill_info == Lookup(SKILLS_DATA, skill_name)
             improvement == IF target_level < current_level THEN 0
                            ELSE target_level - current_level
             salary_increase == RMul(Rat(improvement, 100), Num(skill_info.salary_premium))
         IN  [skill |-> skill_name,
              current_level |-> current_level,
              target_level |-> target_level,
              improvement_needed |-> improvement,
              potential_salary_increase |-> salary_increase,
              demand_trend |-> skill_info.demand_trend,
              courses |-> skill_info.courses]

\* calculate_skill_roi (identical in v2 and v2.1)
calculate_skill_roi(skill_name, current_level, target_level) ==
    IF skill_name \notin Keys(SKILLS_DATA) THEN None
    ELSE LET skill_info == Lookup(SKILLS_DATA, skill_name)
             improvement == target_level - current_level
             salary_increase == RMul(Rat(improvement, 100), Num(skill_info.salary_premium))
         IN  [skill |-> skill_name,
              current_level |-> current_level,
              target_level |-> target_level,
              improvement_needed |-> improvement,
              potential_salary_increase |-> salary_increase,
              demand_trend |-> skill_info.demand_trend,
              courses |-> skill_info.courses]

\* d[k] = v on a dict: a present key keeps its position
Put(d, k, v) ==
    IF k \in Keys(d) THEN [i \in DOMAIN d |-> IF d[i][1] = k THEN <<k, v>> ELSE d[i]]
    ELSE Append(d, <<k, v>>)

\* v2: "for skill, info in gaps.items()" of the course recommendations tab
RECURSIVE MergeGaps(_, _)
MergeGaps(gaps, all_gaps) ==
    IF gaps = <<>> THEN all_gaps
    ELSE LET skill == Head(gaps)[1]
             info == Head(gaps)[2]
         IN  IF skill \notin Keys(all_gaps) \/ info.gap > Lookup(all_gaps, skill).gap
             THEN MergeGaps(Tail(gaps), Put(all_gaps, skill, info))
             ELSE MergeGaps(Tail(gaps), all_gaps)

\* v2: "for career in target_careers" of the course recommendations tab
RECURSIVE AllGapsLoop(_, _, _)
AllGapsLoop(us, targets, all_gaps) ==
    IF targets = <<>> THEN all_gaps
    ELSE IF Head(targets) \in Keys(CAREER_DATA)
         THEN AllGapsLoop(us, Tail(targets),
                          MergeGaps(calculate_skill_gaps(us, Head(targets)), all_gaps))
         ELSE AllGapsLoop(us, Tail(targets), all_gaps)

priority_order_Reversed(p) == CASE p = "High" -> 2 [] p = "Medium" -> 1 [] p = "Low" -> 0

priority_order(p) == CASE p = "High" -> 0 [] p = "Medium" -> 1 [] p = "Low" -> 2

\* Python's order on the key tuples (rank, -gap)
TupleLt(a, b) == a[1] < b[1] \/ (a[1] = b[1] /\ a[2] < b[2])

\* sorted(..., key=...) on a list of <<key, item>> pairs: ascending by key,
\* items with equal keys keep their order
RECURSIVE InsertAsc(_, _)
InsertAsc(x, sorted) ==
    IF sorted = <<>> THEN <<x>>
    ELSE IF TupleLt(x[1], Head(sorted)[1]) THEN <<x>> \o sorted
    ELSE <<Head(sorted)>> \o InsertAsc(x, Tail(sorted))

RECURSIVE SortAsc(_)
SortAsc(keyed) ==
    IF keyed = <<>> THEN <<>>
    ELSE InsertAsc(keyed[Len(keyed)], SortAsc(SubSeq(keyed, 1, Len(keyed) - 1)))

\* the recommended skills with the courses shown for each
Recommended(sorted_gaps, MinGap) ==
    LET Shown(e) == e[2].gap > MinGap /\ e[1] \in Keys(SKILLS_DATA)
        shown == SelectSeq(sorted_gaps, Shown)
    IN  [i \in 1..Len(shown) |->
            <<shown[i][1], shown[i][2], Lookup(SKILLS_DATA, shown[i][1]).courses>>]

\* v2: the course recommendations tab
course_recommendations_v2 ==
    IF target_careers = <<>> THEN [shown |-> FALSE]
    ELSE LET all_gaps == AllGapsLoop(user_skills, target_careers, <<>>)
             sorted_gaps ==
                 Items(SortAsc([i \in 1..Len(all_gaps) |->
                     <<<<priority_order(all_gaps[i][2].priority), -all_gaps[i][2].gap>>,
                       all_gaps[i]>>]))
         IN  [shown |-> TRUE, gaps |-> all_gaps, sorted_gaps |-> sorted_gaps,
              recommended |-> Recommended(sorted_gaps, 0)]

TopGaps == 5

\* v2.1: the courses tab, for the career chosen in its select box
courses_tab(career) ==
    IF target_careers = <<>> THEN [shown |-> FALSE]
    ELSE LET gaps == calculate_skill_gaps(user_skills, career)
             by_gap == Items(SortDesc([i \in 1..Len(gaps) |->
                                         <<Num(gaps[i][2].gap), gaps[i]>>]))
             sorted_gaps == SubSeq(by_gap, 1, IF Len(by_gap) < TopGaps THEN Len(by_gap)
                                              ELSE TopGaps)
         IN  [shown |-> TRUE, gaps |-> gaps, sorted_gaps |-> sorted_gaps,
              recommended |-> Recommended(sorted_gaps, 10)]

-----------------------------------------------------------------------------
(* Inputs of the scalar functions *)

PadChars == {" ", "\t"}

RECURSIVE SeqsUpTo(_, _)
SeqsUpTo(S, n) ==
    IF n = 0 THEN {<<>>}
    ELSE LET shorter == SeqsUpTo(S, n - 1)
         IN  shorter \cup {<<c>> \o t : c \in S, t \in {u \in shorter : Len(u) = n - 1}}

Pads == SeqsUpTo(PadChars, MaxPad)

\* every way of writing the letters of s in upper or lower case
RECURSIVE Casings(_)
Casings(s) ==
    IF s = <<>> THEN {<<>>}
    ELSE {<<c>> \o t : c \in {s[1], UpperChar(s[1])}, t \in Casings(Tail(s))}

\* t is s in some casing
IsCasing(t, s) ==
    /\ Len(t) = Len(s)
    /\ \A i \in 1..Len(s) : t[i] = s[i] \/ t[i] = UpperChar(s[i])

\* t is some label of S in some casing between two runs of whitespace
IsVariantOf(t, S) ==
    \E s \in S : \E i \in 0..Len(t) :
        /\ i + Len(s) <= Len(t)
        /\ \A k \in 1..i : t[k] \in Whitespace
        /\ \A k \in (i + Len(s) + 1)..Len(t) : t[k] \in Whitespace
        /\ IsCasing(SubSeq(t, i + 1, i + Len(s)), s)

\* the synonym sets of spec section 4.1
SynonymsOften == {often, weekly, daily, weeklyPlus}
SynonymsSometimes == {sometimes, monthly, aFewTimes}
SynonymsRarely == {rarely, never, rarelyNever}

\* labels outside every synonym set, however they are cased or padded
UnrecognizedLabels ==
    { None, <<>>, <<" ">>, <<"\t", " ">>,
      OptOften,
      <<"o","f","t","e">>, <<"o","f","t","e","n","n">>, <<"o"," ","f","t","e","n">>,
      <<"O","F","T","E","N","!">>,
      <<"a"," "," ","f","e","w"," ","t","i","m","e","s">>,
      <<"a","f","e","w","t","i","m","e","s">>,
      <<"w","e","e","k","l","y"," ","+">>,
      <<"r","a","r","e","l","y"," ","/"," ","n","e","v","e","r">>,
      <<"y","e","a","r","l","y">>, <<"A","l","w","a","y","s">>,
      <<" ","h","o","u","r","l","y"," ">>, <<"1",".","2">>, <<"n","o","n","e">> }

\* labels paired with every base level for calculate_effective_level
LevelLabels ==
    SynonymsOften \cup SynonymsSometimes \cup SynonymsRarely
        \cup {OptOften, OptSometimes, OptRarelyNever, None, <<>>,
              <<"O","F","T","E","N">>, <<" ","D","a","i","l","y"," ">>,
              <<"N","E","V","E","R","\t">>, <<"y","e","a","r","l","y">>}

MaxLevel == 100

Levels == 0..MaxLevel

\* readiness scores in steps of one tenth
Scores == {Rat(t, 10) : t \in 0..(10 * MaxLevel)}

-----------------------------------------------------------------------------
(***************************************************************************)
(* The skill catalog and the session state at construction.  The shipped    *)
(* catalog has 35 skills in three categories; the model keeps three skills, *)
(* one per category, two of them key skills of Quick Mode.                  *)
(***************************************************************************)

Course(name, cost, duration, roi) ==
    [name |-> name, cost |-> cost, duration |-> duration, roi |-> roi]

TECHNICAL_SKILLS ==
    << <<"A", [category |-> "Technical", salary_premium |-> 22000,
               demand_trend |-> "High Growth",
               courses |-> << Course("CS50", 0, "12 weeks", 300),
                              Course("Bootcamp", 12000, "12 weeks", 180) >>]>> >>

OTHER_SKILLS ==
    << <<"B", [category |-> "Soft", salary_premium |-> 7000,
               demand_trend |-> "Stable",
               courses |-> << Course("Speaking", 49, "4 weeks", 120) >>]>>,
       <<"C", [category |-> "Cognitive", salary_premium |-> 0,
               demand_trend |-> "Growing",
               courses |-> << >>]>> >>

\* SKILLS_DATA = {**TECHNICAL_SKILLS, **OTHER_SKILLS}
SkillCatalog == TECHNICAL_SKILLS \o OTHER_SKILLS

KEY_SKILLS == <<"A", "B">>

\* the wizard's part of a fresh session
OnboardingStart ==
    /\ onboarding_step = 0
    /\ onboarding_complete = FALSE
    /\ user_profile = <<>>
    /\ chat_history = <<>>
    /\ quick_mode = FALSE

\* the answers one pass through the wizard leaves in user_profile
AnsweredProfile ==
    << <<"current_role", "">>, <<"years_exp", 2>>,
       <<"user_type", "University Student">>,
       <<"target_industries", <<"Technology">>>>, <<"target_careers", <<>>>>,
       <<"timeline", "Within 6 months">>,
       <<"work_values", <<>>>>, <<"life_priority", "">> >>

\* the wizard's part of a session showing the main page
MainPage ==
    /\ onboarding_step = 4
    /\ onboarding_complete = TRUE
    /\ user_profile = AnsweredProfile
    /\ chat_history = <<>>
    /\ quick_mode = FALSE

-----------------------------------------------------------------------------
(* Specification of the scalar functions: Init draws a call, the action     *)
(* for the called function runs it once.  practice_weight is called with    *)
(* every casing of every synonym between two runs of up to MaxPad           *)
(* whitespace characters, and with the unrecognised labels.                 *)

NoSession ==
    /\ CAREER_DATA = <<>>
    /\ SKILLS_DATA = SkillCatalog
    /\ OnboardingStart
    /\ user_skills = <<>>
    /\ practice_freq = <<>>
    /\ target_careers = <<>>

InitFn ==
    /\ NoSession
    /\ pc = "call"
    /\ ret = <<>>
    /\ \/ /\ op = "practice_weight"
          /\ \/ arg \in UnrecognizedLabels
             \/ \E s \in SynonymsOften \cup SynonymsSometimes \cup SynonymsRarely :
                  \E pl \in Pads, pr \in Pads :
                      arg \in {pl \o c \o pr : c \in Casings(s)}
       \/ op = "calculate_effective_level" /\ arg \in Levels \X LevelLabels
       \/ op = "get_readiness_band" /\ arg \in Scores

PracticeWeight ==
    /\ pc = "call" /\ op = "practice_weight"
    /\ ret' = practice_weight(arg)
    /\ pc' = "done"
    /\ UNCHANGED <<session, op, arg>>

EffectiveLevel ==
    /\ pc = "call" /\ op = "calculate_effective_level"
    /\ ret' = calculate_effective_level(arg[1], arg[2])
    /\ pc' = "done"
    /\ UNCHANGED <<session, op, arg>>

ReadinessBand ==
    /\ pc = "call" /\ op = "get_readiness_band"
    /\ ret' = get_readiness_band(arg)
    /\ pc' = "done"
    /\ UNCHANGED <<session, op, arg>>

NextFn == PracticeWeight \/ EffectiveLevel \/ ReadinessBand

SpecFn == InitFn /\ [][NextFn]_vars

Returned(f) == pc = "done" /\ op = f

-----------------------------------------------------------------------------
(* C1: practice_weight lower-cases and trims its label and then returns     *)
(* exactly 1.2 for often/weekly/daily/weekly+, exactly 1.0 for              *)
(* sometimes/monthly/a few times and exactly 0.8 for                        *)
(* rarely/never/rarely/never, for every casing and padding of the labels.   *)
C1_SynonymWeights ==
    Returned("practice_weight") =>
        /\ IsVariantOf(arg, SynonymsOften) => ret = Rat(12, 10)
        /\ IsVariantOf(arg, SynonymsSometimes) => ret = Rat(10, 10)
        /\ IsVariantOf(arg, SynonymsRarely) => ret = Rat(8, 10)

C1_Witness ==
    /\ Returned("practice_weight")
    /\ arg = <<"\t","R","a","R","e","L","y","/","N","E","V","e","r"," ">>
    /\ ret = Rat(8, 10)

(* C2: practice_weight never fails; for the empty string, None and every    *)
(* label outside the synonym sets it returns the neutral multiplier 1.0.    *)
C2_UnrecognizedNeutral ==
    Returned("practice_weight") =>
        /\ ret \in {Rat(12, 10), Rat(10, 10), Rat(8, 10)}
        /\ (~ IsVariantOf(arg, SynonymsOften \cup SynonymsSometimes \cup SynonymsRarely))
              => ret = Rat(10, 10)

C2_Witness ==
    /\ Returned("practice_weight")
    /\ arg = None
    /\ ret = Rat(10, 10)

(* C3: calculate_effective_level(base, freq) is min(100, base times the     *)
(* practice weight of freq) and lies in [0, 100] for every base in 0..100   *)
(* and every label; base 90 with "often" gives 100, not 108.                *)
C3_EffectiveLevelCapped ==
    Returned("calculate_effective_level") =>
        LET base == arg[1]
            w == practice_weight(arg[2])
            tenths == (base * w[1] * 10) \div w[2]
        IN  /\ ret = Rat(IF tenths > 1000 THEN 1000 ELSE tenths, 10)
            /\ RLe(Num(0), ret) /\ RLe(ret, Num(100))
            /\ (base = 90 /\ arg[2] = often) => ret = Num(100)

C3_Witness ==
    /\ Returned("calculate_effective_level")
    /\ arg = <<90, often>>
    /\ ret = Num(100)

(* C4: get_readiness_band gives exactly one band with inclusive lower       *)
(* bounds: score >= 75 balanced, 55 <= score < 75 stretch, score < 55       *)
(* long_shot; 75.0 balanced, 74.9 stretch, 55.0 stretch, 54.9 long_shot.    *)
C4_BandBoundaries ==
    Returned("get_readiness_band") =>
        LET tenths == (arg[1] * 10) \div arg[2]
        IN  /\ tenths >= 750 => ret[1] = "balanced"
            /\ (550 <= tenths /\ tenths < 750) => ret[1] = "stretch"
            /\ tenths < 550 => ret[1] = "long_shot"

C4_Witness ==
    /\ Returned("get_readiness_band")
    /\ arg = Rat(749, 10)
    /\ ret[1] = "stretch"

-----------------------------------------------------------------------------
(* Inputs of the engine: catalogs, profiles and calls *)

\* career entries the catalogs are built from
CareerPool ==
    { [category |-> "Technology", skills |-> <<<<"A", 80>>, <<"B", 50>>>>,
       median_salary |-> 130000, growth_rate |-> 25,
       education |-> "Bachelor's", time_to_entry |-> "6-24 months"],
      [category |-> "Healthcare", skills |-> <<<<"A", 100>>, <<"B", 20>>>>,
       median_salary |-> 86000, growth_rate |-> 6,
       education |-> "Bachelor's (BSN)", time_to_entry |-> "24-48 months"],
      [category |-> "Business", skills |-> <<<<"B", 60>>>>,
       median_salary |-> 99000, growth_rate |-> 8,
       education |-> "Bachelor's", time_to_entry |-> "12-24 months"],
      [category |-> "Healthcare", skills |-> <<<<"B", 40>>, <<"A", 0>>>>,
       median_salary |-> 60000, growth_rate |-> 25,
       education |-> "Certificate", time_to_entry |-> "3-12 months"],
      [category |-> "Technology", skills |-> <<>>,
       median_salary |-> 99000, growth_rate |-> 11,
       education |-> "None", time_to_entry |-> "3-12 months"] }

CareerNames == <<"Career 1", "Career 2", "Career 3", "Career 4">>

UnknownCareer == "Unknown Career"

\* catalogs of 1..n careers, named by position
Catalogs(n) ==
    UNION { { [i \in 1..k |-> <<CareerNames[i], f[i]>>] : f \in [1..k -> CareerPool] }
            : k \in 1..n }

Absent == -1

\* the profile that rates "A" a and "B" b; Absent leaves the skill out
MkSkills(a, b) ==
    [k \in ((IF a = Absent THEN {} ELSE {"A"}) \cup (IF b = Absent THEN {} ELSE {"B"}))
        |-> IF k = "A" THEN a ELSE b]

NoEntry == <<"no entry">>

MkFreq(fa, fb) ==
    [k \in ((IF fa = NoEntry THEN {} ELSE {"A"}) \cup (IF fb = NoEntry THEN {} ELSE {"B"}))
        |-> IF k = "A" THEN fa ELSE fb]

AllRatings == {Absent} \cup Levels

FewRatings == {Absent, 0, 35, 50, 100}

\* no entry, the three selectbox options, and the labels "often" and "rarely"
\* of the practice-frequency profile in spec section 3
AllFreqs == {NoEntry, OptOften, OptSometimes, OptRarelyNever, often, rarely}

\* lists of up to n distinct target careers (a multiselect), known or not
TargetLists(n) ==
    {t \in SeqsUpTo({CareerNames[1], CareerNames[2], UnknownCareer}, n) :
        \A i, j \in 1..Len(t) : i # j => t[i] # t[j]}

IndustrySets == {{}, {"Technology"}, {"Underwater"},
                 {"Technology", "Healthcare", "Business"}}

-----------------------------------------------------------------------------
(* Specification of the gap calculator *)

InitGaps ==
    /\ SKILLS_DATA = SkillCatalog
    /\ MainPage
    /\ practice_freq = <<>>
    /\ target_careers = <<>>
    /\ pc = "call"
    /\ ret = <<>>
    /\ op = "calculate_skill_gaps"
    /\ arg \in {CareerNames[i] : i \in 1..MaxCareers} \cup {UnknownCareer}
    /\ \/ /\ CAREER_DATA \in Catalogs(1)
          /\ user_skills \in {MkSkills(a, b) : a \in AllRatings, b \in FewRatings}
       \/ /\ CAREER_DATA \in Catalogs(MaxCareers)
          /\ user_skills \in {MkSkills(a, b) : a \in FewRatings, b \in FewRatings}

\* user_skills.setdefault(skill, 0) in place of user_skills.get(skill, 0)
SkillGaps_Setdefault ==
    /\ pc = "call" /\ op = "calculate_skill_gaps"
    /\ ret' = calculate_skill_gaps(user_skills, arg)
    /\ user_skills' = [k \in DOMAIN user_skills \cup {ret'[i][1] : i \in DOMAIN ret'} |->
                          Get(user_skills, k, 0)]
    /\ pc' = "done"
    /\ UNCHANGED <<catalogs, wizard, practice_freq, target_careers, op, arg>>

SkillGaps ==
    /\ pc = "call" /\ op = "calculate_skill_gaps"
    /\ ret' = calculate_skill_gaps(user_skills, arg)
    /\ pc' = "done"
    /\ UNCHANGED <<session, op, arg>>

NextGaps == SkillGaps

SpecGaps == InitGaps /\ [][NextGaps]_vars

-----------------------------------------------------------------------------
(* Specification of the match and readiness scorers *)

\* the call: the matcher with a set of industries, or a readiness display
\* with a list of target careers; the v2 session has no practice frequencies
InitCall(targetLists) ==
    \/ op = "get_career_matches" /\ arg \in IndustrySets /\ target_careers = <<>>
    \/ op = "sidebar_quick_stats" /\ arg = <<>> /\ target_careers \in targetLists
    \/ op = "dashboard_readiness" /\ arg = <<>> /\ target_careers \in targetLists
    \/ /\ op = "get_career_matches_v2" /\ arg \in IndustrySets /\ target_careers = <<>>
       /\ practice_freq = <<>>
    \/ /\ op = "sidebar_quick_stats_v2" /\ arg = <<>> /\ target_careers \in targetLists
       /\ practice_freq = <<>>

\* one career and every rating of "A", or several careers and few ratings
InitMatch ==
    /\ SKILLS_DATA = SkillCatalog
    /\ MainPage
    /\ pc = "call"
    /\ ret = <<>>
    /\ \/ /\ CAREER_DATA \in Catalogs(1)
          /\ user_skills \in {MkSkills(a, 50) : a \in AllRatings}
          /\ practice_freq \in {MkFreq(fa, fb) : fa \in AllFreqs, fb \in {NoEntry, OptRarelyNever}}
          /\ InitCall(TargetLists(1))
       \/ /\ CAREER_DATA \in Catalogs(MaxCareers)
          /\ user_skills \in {MkSkills(0, Absent), MkSkills(50, Absent),
                               MkSkills(50, 50), MkSkills(100, 50),
                               MkSkills(100, 0)}
          /\ practice_freq \in {MkFreq(NoEntry, NoEntry), MkFreq(often, OptRarelyNever)}
          /\ InitCall(TargetLists(MaxTargets))

CareerMatches ==
    /\ pc = "call" /\ op = "get_career_matches"
    /\ ret' = get_career_matches(user_skills, arg)
    /\ pc' = "done"
    /\ UNCHANGED <<session, op, arg>>

SidebarQuickStats ==
    /\ pc = "call" /\ op = "sidebar_quick_stats"
    /\ ret' = sidebar_quick_stats
    /\ pc' = "done"
    /\ UNCHANGED <<session, op, arg>>

DashboardReadiness ==
    /\ pc = "call" /\ op = "dashboard_readiness"
    /\ ret' = dashboard_readiness
    /\ pc' = "done"
    /\ UNCHANGED <<session, op, arg>>

CareerMatchesV2 ==
    /\ pc = "call" /\ op = "get_career_matches_v2"
    /\ ret' = get_career_matches_v2(user_skills, arg)
    /\ pc' = "done"
    /\ UNCHANGED <<session, op, arg>>

SidebarQuickStatsV2 ==
    /\ pc = "call" /\ op = "sidebar_quick_stats_v2"
    /\ ret' = sidebar_quick_stats_v2
    /\ pc' = "done"
    /\ UNCHANGED <<session, op, arg>>

NextMatch ==
    \/ CareerMatches
    \/ SidebarQuickStats
    \/ DashboardReadiness
    \/ CareerMatchesV2
    \/ SidebarQuickStatsV2

SpecMatch == InitMatch /\ [][NextMatch]_vars

-----------------------------------------------------------------------------
(* Claims about the gap calculator, checked under SpecGaps *)

Max(a, b) == IF a > b THEN a ELSE b

Records(gaps) == {gaps[i][2] : i \in DOMAIN gaps}

(* C5: for a known career calculate_skill_gaps returns one record per       *)
(* required skill and none for any other rated skill; user_level is the     *)
(* raw rating (0 when the skill is absent from the profile), required_level *)
(* the career's requirement and gap = max(0, required_level - user_level).  *)
C5_GapRecords ==
    (Returned("calculate_skill_gaps") /\ arg \in Keys(CAREER_DATA)) =>
        LET required == Lookup(CAREER_DATA, arg).skills
        IN  /\ Keys(ret) = Keys(required)
            /\ Len(ret) = Cardinality(Keys(required))
            /\ \A i \in DOMAIN ret :
                 LET skill == ret[i][1]
                     rec == ret[i][2]
                     rating == IF skill \in DOMAIN user_skills THEN user_skills[skill] ELSE 0
                 IN  /\ rec.user_level = rating
                     /\ rec.required_level = Lookup(required, skill)
                     /\ rec.gap = Max(0, rec.required_level - rec.user_level)

C5_Witness ==
    /\ Returned("calculate_skill_gaps")
    /\ arg = CareerNames[1]
    /\ Lookup(CAREER_DATA, arg).skills = <<<<"B", 60>>>>
    /\ user_skills = MkSkills(70, Absent)
    /\ Len(ret) = 1
    /\ ret[1][1] = "B"
    /\ ret[1][2].user_level = 0 /\ ret[1][2].required_level = 60 /\ ret[1][2].gap = 60

(* C6: a gap record has priority High when its gap exceeds 30, Medium when  *)
(* it exceeds 15 but not 30, Low otherwise (31 High, 30 Medium, 16 Medium,  *)
(* 15 Low); a rating above the requirement gives gap 0 and Low, and no gap  *)
(* is negative.                                                             *)
C6_PriorityTiers ==
    Returned("calculate_skill_gaps") =>
        \A rec \in Records(ret) :
            /\ rec.gap >= 0
            /\ rec.gap > 30 => rec.priority = "High"
            /\ (rec.gap > 15 /\ rec.gap <= 30) => rec.priority = "Medium"
            /\ rec.gap <= 15 => rec.priority = "Low"
            /\ rec.user_level > rec.required_level => (rec.gap = 0 /\ rec.priority = "Low")

C6_Witness ==
    /\ Returned("calculate_skill_gaps")
    /\ user_skills = MkSkills(50, Absent)
    /\ Len(ret) = 2
    /\ ret[1] = <<"A", [user_level |-> 50, required_level |-> 80, gap |-> 30, priority |-> "Medium"]>>
    /\ ret[2] = <<"B", [user_level |-> 0, required_level |-> 50, gap |-> 50, priority |-> "High"]>>

(* C7: calculate_skill_gaps with a career name that is not in the catalog   *)
(* returns an empty mapping and does not raise, for every user profile.     *)
C7_UnknownCareerEmpty ==
    (Returned("calculate_skill_gaps") /\ arg \notin Keys(CAREER_DATA)) => ret = <<>>

C7_Witness ==
    /\ Returned("calculate_skill_gaps")
    /\ arg = UnknownCareer
    /\ user_skills = MkSkills(100, 35)
    /\ ret = <<>>

-----------------------------------------------------------------------------
(* Claims about the match and readiness scorers, checked under SpecMatch *)

\* match_i = min(effective_level_i / required_i, 1.0), required_i > 0
RatioOf(entry) ==
    LET rating == IF entry[1] \in DOMAIN user_skills THEN user_skills[entry[1]] ELSE 0
        label == IF entry[1] \in DOMAIN practice_freq THEN practice_freq[entry[1]]
                 ELSE OptSometimes
    IN  RMin(RDiv(calculate_effective_level(rating, label), Num(entry[2])), Num(1))

\* 100 * (sum of match_i * required_i/100) / (sum of required_i/100); a skill
\* required at 0 has weight 0 and adds nothing to either sum
WeightedMatch(skills) ==
    LET weight(i) == Rat(skills[i][2], 100)
        term(i) == IF skills[i][2] = 0 THEN Num(0) ELSE RMul(RatioOf(skills[i]), weight(i))
    IN  RMul(Num(100),
             RDiv(RSum([i \in 1..Len(skills) |-> term(i)]),
                  RSum([i \in 1..Len(skills) |-> weight(i)])))

\* 100 * (sum of match_i) / (number of required skills)
UnweightedReadiness(skills) ==
    RMul(Num(100),
         RDiv(RSum([i \in 1..Len(skills) |-> RatioOf(skills[i])]), Num(Len(skills))))

TotalRequired(skills) == RSum([i \in 1..Len(skills) |-> Num(skills[i][2])])

AllPositive(skills) == skills # <<>> /\ \A i \in 1..Len(skills) : skills[i][2] > 0

InCatalog(c) == c \in Keys(CAREER_DATA)

KnownTargets == SelectSeq(target_careers, InCatalog)

SkillsOf(career) == Lookup(CAREER_DATA, career).skills

(* C8: the match_pct of every entry of get_career_matches is                *)
(* 100 * (sum of match_i * required_i/100) / (sum of required_i/100) with   *)
(* match_i = min(effective_level_i / required_i, 1.0) computed from the     *)
(* practice-adjusted level; v2, whose session has no practice frequencies,  *)
(* computes the same with every skill at the default frequency.             *)
C8_WeightedMatch ==
    (Returned("get_career_matches") \/ Returned("get_career_matches_v2")) =>
        \A i \in DOMAIN ret :
            TotalRequired(SkillsOf(ret[i].career)) # Num(0) =>
                ret[i].match_pct = WeightedMatch(SkillsOf(ret[i].career))

C8_Witness ==
    /\ Returned("get_career_matches")
    /\ Len(CAREER_DATA) = 1
    /\ SkillsOf(CareerNames[1]) = <<<<"A", 80>>, <<"B", 50>>>>
    /\ user_skills = MkSkills(50, 50)
    /\ practice_freq = MkFreq(OptRarelyNever, NoEntry)
    /\ Len(ret) = 1
    /\ ret[1].match_pct = Rat(900, 13)

(* C9: the unweighted readiness of a target career, as computed for the     *)
(* sidebar quick stats (which show its mean over the target careers) and    *)
(* for each dashboard card, is 100 * (sum of match_i) / (number of required *)
(* skills) with match_i = min(effective_level_i / required_i, 1.0) computed *)
(* from the practice-adjusted level.                                        *)
C9_UnweightedReadiness ==
    /\ ((Returned("sidebar_quick_stats") \/ Returned("sidebar_quick_stats_v2")) /\ ret.shown) =>
          /\ Len(ret.readiness_scores) = Len(KnownTargets)
          /\ \A i \in DOMAIN ret.readiness_scores :
                AllPositive(SkillsOf(KnownTargets[i])) =>
                    ret.readiness_scores[i] = UnweightedReadiness(SkillsOf(KnownTargets[i]))
    /\ (Returned("sidebar_quick_stats") /\ ret.shown /\ Len(KnownTargets) = 1
            /\ AllPositive(SkillsOf(KnownTargets[1]))) =>
          ret.avg_readiness = UnweightedReadiness(SkillsOf(KnownTargets[1]))
    /\ Returned("dashboard_readiness") =>
          /\ Len(ret) = Len(KnownTargets)
          /\ \A i \in DOMAIN ret :
                /\ ret[i].career = KnownTargets[i]
                /\ AllPositive(SkillsOf(KnownTargets[i])) =>
                       ret[i].readiness = UnweightedReadiness(SkillsOf(KnownTargets[i]))

C9_Witness ==
    /\ Returned("sidebar_quick_stats")
    /\ target_careers = <<CareerNames[1]>>
    /\ SkillsOf(CareerNames[1]) = <<<<"A", 80>>, <<"B", 50>>>>
    /\ user_skills = MkSkills(50, 50)
    /\ practice_freq = MkFreq(OptRarelyNever, OptRarelyNever)
    /\ ret.shown
    /\ ret.readiness_scores = <<Num(65)>>
    /\ ret.avg_readiness = Num(65)

(* C10: for a career whose required-skill map is empty, get_career_matches, *)
(* the sidebar quick stats and the dashboard readiness each yield 0 and     *)
(* none fails with a division by zero.                                      *)
C10_DegenerateYieldsZero ==
    /\ Returned("get_career_matches") =>
          \A i \in DOMAIN ret : SkillsOf(ret[i].career) = <<>> => ret[i].match_pct = Num(0)
    /\ Returned("dashboard_readiness") =>
          \A i \in DOMAIN ret : SkillsOf(ret[i].career) = <<>> => ret[i].readiness = Num(0)
    /\ Returned("sidebar_quick_stats") =>
          /\ ret.exception = "none"
          /\ ret.shown =>
                \A i \in DOMAIN ret.readiness_scores :
                    SkillsOf(KnownTargets[i]) = <<>> => ret.readiness_scores[i] = Num(0)

\* the example of spec section 8, property 5: a career requiring "A" at 100
\* and "B" at 20, a user rated 100 and 0, practising both at the default
AsymmetricCareer(c) == SkillsOf(c) = <<<<"A", 100>>, <<"B", 20>>>>

AsymmetricProfile ==
    /\ DOMAIN user_skills = {"A", "B"}
    /\ user_skills["A"] = 100 /\ user_skills["B"] = 0
    /\ \A k \in DOMAIN practice_freq : practice_freq[k] = OptSometimes

(* C11: for a career requiring "A" at 100 and "B" at 20 and a user rated    *)
(* 100 on "A" and 0 on "B" with neutral practice, the weighted match of     *)
(* get_career_matches is strictly higher than the unweighted readiness of   *)
(* the sidebar and of the dashboard card.                                   *)
C11_WeightedAboveUnweighted ==
    AsymmetricProfile =>
        /\ Returned("get_career_matches") =>
              \A i \in DOMAIN ret :
                  AsymmetricCareer(ret[i].career) =>
                      RLt(QuickStatsScore(user_skills, practice_freq, SkillsOf(ret[i].career)),
                          ret[i].match_pct)
        /\ (Returned("sidebar_quick_stats") /\ ret.shown) =>
              \A i \in DOMAIN ret.readiness_scores :
                  AsymmetricCareer(KnownTargets[i]) =>
                      RLt(ret.readiness_scores[i],
                          MatchPct(user_skills, practice_freq, SkillsOf(KnownTargets[i])))
        /\ Returned("dashboard_readiness") =>
              \A i \in DOMAIN ret :
                  AsymmetricCareer(ret[i].career) =>
                      RLt(ret[i].readiness,
                          MatchPct(user_skills, practice_freq, SkillsOf(ret[i].career)))

C11_Witness ==
    /\ Returned("get_career_matches")
    /\ AsymmetricProfile
    /\ practice_freq = <<>>
    /\ Len(ret) = 2
    /\ AsymmetricCareer(ret[1].career)
    /\ ret[1].match_pct = Rat(250, 3)
    /\ QuickStatsScore(user_skills, practice_freq, SkillsOf(ret[1].career)) = Num(50)

\* positions in the catalog of the careers whose category was asked for
Selected == {i \in DOMAIN CAREER_DATA : CAREER_DATA[i][2].category \in arg}

(* C12: get_career_matches returns exactly one entry for each catalog       *)
(* career whose category is in the given set and no entry for any other     *)
(* career; an empty set, or one naming no category of the catalog, gives    *)
(* the empty list.                                                          *)
C12_OneEntryPerSelectedCareer ==
    (Returned("get_career_matches") \/ Returned("get_career_matches_v2")) =>
        /\ Len(ret) = Cardinality(Selected)
        /\ \A i \in Selected :
              Cardinality({j \in DOMAIN ret : ret[j].career = CAREER_DATA[i][1]}) = 1
        /\ \A j \in DOMAIN ret :
              \E i \in Selected : /\ ret[j].career = CAREER_DATA[i][1]
                                  /\ ret[j].category = CAREER_DATA[i][2].category
        /\ (arg = {} \/ \A i \in DOMAIN CAREER_DATA : CAREER_DATA[i][2].category \notin arg)
              => ret = <<>>

C12_Witness ==
    /\ Returned("get_career_matches")
    /\ arg = {"Technology"}
    /\ Len(CAREER_DATA) = 2
    /\ CAREER_DATA[1][2].category = "Healthcare"
    /\ CAREER_DATA[2][2].category = "Technology"
    /\ Len(ret) = 1
    /\ ret[1].career = CareerNames[2]

\* position of a career in the catalog's iteration order
CatalogPosition(c) == CHOOSE i \in DOMAIN CAREER_DATA : CAREER_DATA[i][1] = c

(* C13: the list returned by get_career_matches is in descending order of   *)
(* match_pct, and entries with equal match_pct stand in the order in which  *)
(* the catalog lists their careers.                                         *)
C13_DescendingStable ==
    (Returned("get_career_matches") \/ Returned("get_career_matches_v2")) =>
        \A i, j \in DOMAIN ret :
            i < j =>
                /\ RLe(ret[j].match_pct, ret[i].match_pct)
                /\ ret[i].match_pct = ret[j].match_pct =>
                       CatalogPosition(ret[i].career) < CatalogPosition(ret[j].career)

C13_Witness ==
    /\ Returned("get_career_matches")
    /\ Len(ret) = 2
    /\ SkillsOf(CareerNames[1]) # SkillsOf(CareerNames[2])
    /\ ret[1].match_pct = ret[2].match_pct
    /\ RLt(Num(0), ret[1].match_pct)
    /\ ret[1].career = CareerNames[1]
    /\ ret[2].career = CareerNames[2]

\* min(level / required, 1.0) where the level of a skill without a
\* practice-frequency entry is its raw rating
RatioRawIfNoEntry(entry) ==
    LET rating == IF entry[1] \in DOMAIN user_skills THEN user_skills[entry[1]] ELSE 0
        level == IF entry[1] \in DOMAIN practice_freq
                 THEN calculate_effective_level(rating, practice_freq[entry[1]])
                 ELSE Num(rating)
    IN  RMin(RDiv(level, Num(entry[2])), Num(1))

WeightedRawIfNoEntry(skills) ==
    RMul(Num(100),
         RDiv(RSum([i \in 1..Len(skills) |->
                       RMul(RatioRawIfNoEntry(skills[i]), Rat(skills[i][2], 100))]),
              RSum([i \in 1..Len(skills) |-> Rat(skills[i][2], 100)])))

UnweightedRawIfNoEntry(skills) ==
    RMul(Num(100),
         RDiv(RSum([i \in 1..Len(skills) |-> RatioRawIfNoEntry(skills[i])]),
              Num(Len(skills))))

(* C20: a skill with no entry in the practice-frequency profile is treated  *)
(* as practised "sometimes": its effective level is min(100, raw * 1.0),    *)
(* the raw rating, in the match of get_career_matches, in the sidebar       *)
(* readiness and in the dashboard readiness.                                *)
C20_NoEntryMeansRaw ==
    /\ Returned("get_career_matches") =>
          \A i \in DOMAIN ret :
              AllPositive(SkillsOf(ret[i].career)) =>
                  ret[i].match_pct = WeightedRawIfNoEntry(SkillsOf(ret[i].career))
    /\ (Returned("sidebar_quick_stats") /\ ret.shown) =>
          \A i \in DOMAIN ret.readiness_scores :
              AllPositive(SkillsOf(KnownTargets[i])) =>
                  ret.readiness_scores[i] = UnweightedRawIfNoEntry(SkillsOf(KnownTargets[i]))
    /\ Returned("dashboard_readiness") =>
          \A i \in DOMAIN ret :
              AllPositive(SkillsOf(ret[i].career)) =>
                  ret[i].readiness = UnweightedRawIfNoEntry(SkillsOf(ret[i].career))

C20_Witness ==
    /\ Returned("get_career_matches")
    /\ Len(CAREER_DATA) = 1
    /\ SkillsOf(CareerNames[1]) = <<<<"B", 60>>>>
    /\ user_skills = MkSkills(50, 50)
    /\ practice_freq = MkFreq(OptRarelyNever, NoEntry)
    /\ Len(ret) = 1
    /\ ret[1].match_pct = Rat(250, 3)

InPercentRange(x) == RLe(Num(0), x) /\ RLe(x, Num(100))

(* C22: for ratings in 0..100, every frequency label and every career of    *)
(* the catalog, each readiness a dashboard card shows, the average          *)
(* readiness the sidebar shows (and each readiness it averages) and each    *)
(* weighted match_pct lies between 0 and 100 inclusive.                     *)
C22_ScoresInRange ==
    /\ Returned("get_career_matches") =>
          \A i \in DOMAIN ret : InPercentRange(ret[i].match_pct)
    /\ (Returned("sidebar_quick_stats") /\ ret.shown) =>
          /\ InPercentRange(ret.avg_readiness)
          /\ \A i \in DOMAIN ret.readiness_scores : InPercentRange(ret.readiness_scores[i])
    /\ Returned("dashboard_readiness") =>
          \A i \in DOMAIN ret : InPercentRange(ret[i].readiness)

\* a rating of 100 practised often reaches the top of the range: the
\* effective level is capped at 100 and the ratio at 1
C22_Witness ==
    /\ Returned("get_career_matches")
    /\ Get(user_skills, "A", 0) = 100
    /\ "A" \in DOMAIN practice_freq /\ practice_weight(practice_freq["A"]) = Rat(12, 10)
    /\ \E i \in DOMAIN ret :
          /\ ret[i].match_pct = Num(100)
          /\ "A" \in Keys(Lookup(CAREER_DATA, ret[i].career).skills)
          /\ Lookup(Lookup(CAREER_DATA, ret[i].career).skills, "A") = 80

-----------------------------------------------------------------------------
(* Specification of the course and ROI recommender: the v2 course           *)
(* recommendations tab, the v2.1 courses tab with the career chosen in its  *)
(* select box, and calculate_skill_roi.                                     *)

\* the skill catalog holds every required skill, or only "A"
CourseSessions(ratings) ==
    \/ /\ SKILLS_DATA = SkillCatalog
       /\ user_skills \in {MkSkills(a, b) : a \in ratings, b \in ratings}
    \/ /\ SKILLS_DATA = TECHNICAL_SKILLS
       /\ user_skills \in {MkSkills(a, Absent) : a \in ratings}

TabCall(targetLists) ==
    /\ target_careers \in targetLists
    /\ \/ op = "course_recommendations_v2" /\ arg = <<>>
       \/ /\ op = "courses_tab"
          /\ IF target_careers = <<>> THEN arg = <<>>
             ELSE arg \in {target_careers[i] : i \in DOMAIN target_careers}

UnknownSkill == "Unknown skill"

RoiLevels == {0, 15, 50, 85, 100}

InitCourses ==
    /\ MainPage
    /\ practice_freq = <<>>
    /\ pc = "call"
    /\ ret = <<>>
    /\ \/ /\ CAREER_DATA \in Catalogs(1)
          /\ CourseSessions(FewRatings)
          /\ TabCall(TargetLists(1))
       \/ /\ CAREER_DATA \in Catalogs(MaxCareers)
          /\ CourseSessions({0, 50})
          /\ TabCall(TargetLists(MaxTargets))
       \/ /\ CAREER_DATA \in Catalogs(1)
          /\ CourseSessions({50})
          /\ target_careers = <<>>
          /\ op = "calculate_skill_roi"
          /\ arg \in ({"A", "B", "C", UnknownSkill} \X RoiLevels) \X RoiLevels

CourseRecommendationsV2 ==
    /\ pc = "call" /\ op = "course_recommendations_v2"
    /\ ret' = course_recommendations_v2
    /\ pc' = "done"
    /\ UNCHANGED <<session, op, arg>>

CoursesTab ==
    /\ pc = "call" /\ op = "courses_tab"
    /\ ret' = courses_tab(arg)
    /\ pc' = "done"
    /\ UNCHANGED <<session, op, arg>>

SkillRoi ==
    /\ pc = "call" /\ op = "calculate_skill_roi"
    /\ ret' = calculate_skill_roi(arg[1][1], arg[1][2], arg[2])
    /\ pc' = "done"
    /\ UNCHANGED <<session, op, arg>>

NextCourses == CourseRecommendationsV2 \/ CoursesTab \/ SkillRoi

SpecCourses == InitCourses /\ [][NextCourses]_vars

-----------------------------------------------------------------------------
(* Claims about the course and ROI recommender, checked under SpecCourses *)

KnownTargetSet == {KnownTargets[i] : i \in DOMAIN KnownTargets}

\* the target careers that require a skill
Requiring(skill) == {c \in KnownTargetSet : skill \in Keys(SkillsOf(c))}

\* the gap record of a skill for one career
GapRecordFor(c, skill) == Lookup(calculate_skill_gaps(user_skills, c), skill)

\* the gap map built by recommender f holds each skill required by some
\* target career once, with the record of a career where its gap is largest
GapMapAcrossTargets(f) ==
    (Returned(f) /\ ret.shown) =>
        /\ {ret.gaps[i][1] : i \in DOMAIN ret.gaps} = {k \in {"A", "B", "C"} : Requiring(k) # {}}
        /\ \A i, j \in DOMAIN ret.gaps : ret.gaps[i][1] = ret.gaps[j][1] => i = j
        /\ \A i \in DOMAIN ret.gaps :
              \E c \in Requiring(ret.gaps[i][1]) :
                  /\ ret.gaps[i][2] = GapRecordFor(c, ret.gaps[i][1])
                  /\ \A d \in Requiring(ret.gaps[i][1]) :
                         GapRecordFor(d, ret.gaps[i][1]).gap <= ret.gaps[i][2].gap

\* the v2 course recommendations tab builds such a map
V2GapMapAcrossTargets == GapMapAcrossTargets("course_recommendations_v2")

V2GapMapWitness ==
    /\ Returned("course_recommendations_v2")
    /\ target_careers = <<CareerNames[1], CareerNames[2]>>
    /\ SkillsOf(CareerNames[1]) = <<<<"A", 80>>, <<"B", 50>>>>
    /\ SkillsOf(CareerNames[2]) = <<<<"A", 100>>, <<"B", 20>>>>
    /\ user_skills = MkSkills(50, 0)
    /\ ret.gaps = << <<"A", GapRecord(50, 100)>>, <<"B", GapRecord(0, 50)>> >>

(* C14: the course recommender builds one gap map across all target         *)
(* careers: each skill required by at least one target career appears in    *)
(* it exactly once, carrying the gap record of the career where that        *)
(* skill's gap is largest; stated for the v2 course recommendations tab and *)
(* for the v2.1 courses tab, with every target career in the catalog.       *)
C14_OneGapMapAcrossTargets ==
    KnownTargets = target_careers =>
        /\ GapMapAcrossTargets("course_recommendations_v2")
        /\ GapMapAcrossTargets("courses_tab")

\* the rank the recommendation order gives to a priority
PriorityRank(p) == IF p = "High" THEN 0 ELSE IF p = "Medium" THEN 1 ELSE 2

\* a list of <<skill, gap record, ...>> entries is in recommendation order
InRecommendationOrder(list) ==
    \A i, j \in DOMAIN list :
        i < j =>
            \/ PriorityRank(list[i][2].priority) < PriorityRank(list[j][2].priority)
            \/ /\ PriorityRank(list[i][2].priority) = PriorityRank(list[j][2].priority)
               /\ list[i][2].gap >= list[j][2].gap

(* C15: the recommended skills are ordered by priority rank ascending       *)
(* (High = 0, then Medium = 1, then Low = 2) and, within one priority, by   *)
(* gap descending; in the v2 course recommendations tab and in the v2.1     *)
(* courses tab.                                                             *)
C15_PriorityThenGap ==
    ((Returned("course_recommendations_v2") \/ Returned("courses_tab")) /\ ret.shown) =>
        /\ InRecommendationOrder(ret.sorted_gaps)
        /\ InRecommendationOrder(ret.recommended)

C15_Witness ==
    /\ Returned("course_recommendations_v2")
    /\ ret.shown
    /\ Len(ret.gaps) = 2 /\ Len(ret.recommended) = 2
    /\ ret.gaps[1][1] = "A" /\ ret.gaps[1][2].priority = "Medium"
    /\ ret.gaps[2][1] = "B" /\ ret.gaps[2][2].priority = "High"
    /\ ret.gaps[1][2].gap = 30 /\ ret.gaps[2][2].gap = 50
    /\ ret.recommended[1][1] = "B"
    /\ ret.recommended[2][1] = "A"

(* C16: for a skill of the catalog, calculate_skill_roi returns             *)
(* improvement_needed = target - current, potential_salary_increase =       *)
(* (target - current) / 100 * salary_premium, and the skill's courses as    *)
(* the catalog lists them.                                                  *)
C16_SkillRoi ==
    (Returned("calculate_skill_roi") /\ arg[1][1] \in Keys(SKILLS_DATA)) =>
        LET skill == arg[1][1]
            current == arg[1][2]
            target == arg[2]
            info == Lookup(SKILLS_DATA, skill)
        IN  /\ ret.improvement_needed = target - current
            /\ ret.potential_salary_increase =
                   Rat((target - current) * info.salary_premium, 100)
            /\ ret.courses = info.courses

C16_Witness ==
    /\ Returned("calculate_skill_roi")
    /\ arg = << <<"A", 50>>, 85 >>
    /\ ret.improvement_needed = 35
    /\ ret.potential_salary_increase = Num(7700)
    /\ Len(ret.courses) = 2
    /\ ret.courses[1].name = "CS50" /\ ret.courses[2].name = "Bootcamp"

-----------------------------------------------------------------------------
(* Specification of repeated queries: calculate_skill_gaps or               *)
(* get_career_matches is called, and then called again with the same        *)
(* arguments; ret then holds the pair of the two results.                   *)

InitRepeat ==
    /\ SKILLS_DATA = SkillCatalog
    /\ MainPage
    /\ target_careers = <<>>
    /\ pc = "call"
    /\ ret = <<>>
    /\ CAREER_DATA \in Catalogs(MaxCareers)
    /\ user_skills \in {MkSkills(a, b) : a \in {0, 50, 100}, b \in {Absent, 0, 50}}
    /\ practice_freq \in {MkFreq(NoEntry, NoEntry), MkFreq(OptOften, OptRarelyNever)}
    /\ \/ /\ op = "calculate_skill_gaps"
          /\ arg \in {CareerNames[i] : i \in 1..MaxCareers} \cup {UnknownCareer}
       \/ op = "get_career_matches" /\ arg \in IndustrySets

SkillGapsAgain ==
    /\ pc = "done" /\ op = "calculate_skill_gaps"
    /\ ret' = <<ret, calculate_skill_gaps(user_skills, arg)>>
    /\ pc' = "again"
    /\ UNCHANGED <<session, op, arg>>

CareerMatchesAgain ==
    /\ pc = "done" /\ op = "get_career_matches"
    /\ ret' = <<ret, get_career_matches(user_skills, arg)>>
    /\ pc' = "again"
    /\ UNCHANGED <<session, op, arg>>

NextRepeat == SkillGaps \/ CareerMatches \/ SkillGapsAgain \/ CareerMatchesAgain

SpecRepeat == InitRepeat /\ [][NextRepeat]_vars

-----------------------------------------------------------------------------
(* A further claim about practice_weight, checked under SpecFn *)

\* t is label s written with some letters in upper case
CaseVariantOf(t, S) == \E s \in S : IsCasing(t, s) /\ t # s

AllSynonyms == SynonymsOften \cup SynonymsSometimes \cup SynonymsRarely

(* C18, as stated: practice_weight returns 1.0 for every unrecognized       *)
(* label, counting as unrecognized the empty string and the case variants   *)
(* of the recognized labels, such as "OFTEN".                               *)
C18_CaseVariantsNeutral ==
    (/\ Returned("practice_weight")
     /\ \/ ~ IsVariantOf(arg, AllSynonyms)
        \/ arg = <<>>
        \/ CaseVariantOf(arg, AllSynonyms)) => ret = Rat(10, 10)

(* C18, amended: practice_weight returns 1.0 for every label that is        *)
(* unrecognized after lower-casing and trimming, the empty string           *)
(* included; a case variant of a recognized label is recognized and gets    *)
(* that label's multiplier, so "OFTEN" gets 1.2.                            *)
C18_CaseVariantsRecognized ==
    Returned("practice_weight") =>
        /\ (arg = <<>> \/ ~ IsVariantOf(arg, AllSynonyms)) => ret = Rat(10, 10)
        /\ CaseVariantOf(arg, SynonymsOften) => ret = Rat(12, 10)
        /\ CaseVariantOf(arg, SynonymsSometimes) => ret = Rat(10, 10)
        /\ CaseVariantOf(arg, SynonymsRarely) => ret = Rat(8, 10)

C18_Witness ==
    /\ Returned("practice_weight")
    /\ arg = <<"O","F","T","E","N">>
    /\ ret = Rat(12, 10)

-----------------------------------------------------------------------------
(* Specification of the session: the v2.1 onboarding wizard and the Restart *)
(* button of the main page.  One action is one click or widget change       *)
(* together with the script run it causes; a run that shows the skills      *)
(* step writes the values of its widgets back into the session.  Sliders    *)
(* stop at SliderStops; free-text and single-choice answers that nothing    *)
(* reads keep their defaults.                                               *)

InitialUserSkills_Empty == <<>>

\* {skill: 50 for skill in SKILLS_DATA.keys()}
InitialUserSkills == [skill \in Keys(SKILLS_DATA) |-> 50]

\* the catalog the wizard offers careers from
WizardCatalog ==
    << <<CareerNames[1],
         [category |-> "Technology", skills |-> <<<<"A", 80>>, <<"B", 50>>>>,
          median_salary |-> 130000, growth_rate |-> 25,
          education |-> "Bachelor's", time_to_entry |-> "6-24 months"]>>,
       <<CareerNames[2],
         [category |-> "Healthcare", skills |-> <<<<"A", 100>>, <<"B", 20>>>>,
          median_salary |-> 86000, growth_rate |-> 6,
          education |-> "Bachelor's (BSN)", time_to_entry |-> "24-48 months"]>> >>

SliderStops == {0, 50, MaxLevel}

freq_opts == <<OptOften, OptSometimes, OptRarelyNever>>

IndustryChoices == {<<>>, <<"Technology">>, <<"Technology", "Healthcare">>}

Range(q) == {q[i] : i \in DOMAIN q}

\* the careers offered by the multiselect of step 2
available_careers(target_industries) ==
    LET Offered(e) == e[2].category \in Range(target_industries)
        offered == SelectSeq(CAREER_DATA, Offered)
    IN  [i \in 1..Len(offered) |-> offered[i][1]]

\* selections of distinct offered careers, in the order chosen
Selections(offered, n) ==
    {t \in SeqsUpTo(Range(offered), n) : \A i, j \in 1..Len(t) : i # j => t[i] # t[j]}

max_selections == 3

\* the skills whose slider and select box the skills step shows
skills_to_show(quick) ==
    {e[1] : e \in {x \in Range(SKILLS_DATA) :
                      /\ quick => x[1] \in Range(KEY_SKILLS)
                      /\ x[2].category \in {"Technical", "Cognitive", "Soft"}}}

\* what a run of the skills step leaves in user_skills
RenderedSkills(us, quick) ==
    LET written == skills_to_show(quick)
                     \cup (IF quick THEN Keys(SKILLS_DATA) \ Range(KEY_SKILLS) ELSE {})
    IN  [k \in DOMAIN us \cup written |-> Get(us, k, 50)]

\* what a run of the skills step leaves in practice_freq
RenderedFreq(pf, quick) ==
    LET shown == skills_to_show(quick)
        filled == IF quick THEN Keys(SKILLS_DATA) \ Range(KEY_SKILLS) ELSE {}
    IN  [k \in DOMAIN pf \cup shown \cup filled |->
            LET curr == Get(pf, k, OptSometimes)
            IN  IF k \in shown /\ curr \notin Range(freq_opts) THEN OptSometimes ELSE curr]

NoCall == pc = "session" /\ op = "" /\ arg = <<>> /\ ret = <<>>

Init ==
    /\ CAREER_DATA = WizardCatalog
    /\ SKILLS_DATA = SkillCatalog
    /\ OnboardingStart
    /\ user_skills = InitialUserSkills
    /\ practice_freq = <<>>
    /\ target_careers = <<>>
    /\ NoCall

Wizard(step) == ~ onboarding_complete /\ onboarding_step = step

Frame == UNCHANGED <<catalogs, chat_history, pc, op, arg, ret>>

\* entering the skills step: the run that follows shows it
ShowSkillsStep ==
    /\ onboarding_step' = 3
    /\ user_skills' = RenderedSkills(user_skills, quick_mode)
    /\ practice_freq' = RenderedFreq(practice_freq, quick_mode)
    /\ UNCHANGED quick_mode

\* the start button jumps over the situation step
GetStarted_SkipSituation ==
    /\ Wizard(0)
    /\ onboarding_step' = 2
    /\ UNCHANGED <<onboarding_complete, user_profile, quick_mode, user_skills,
                   practice_freq, target_careers>>
    /\ Frame

GetStarted ==
    /\ Wizard(0)
    /\ onboarding_step' = 1
    /\ UNCHANGED <<onboarding_complete, user_profile, quick_mode, user_skills,
                   practice_freq, target_careers>>
    /\ Frame

SituationBack ==
    /\ Wizard(1)
    /\ onboarding_step' = 0
    /\ UNCHANGED <<onboarding_complete, user_profile, quick_mode, user_skills,
                   practice_freq, target_careers>>
    /\ Frame

SituationNext ==
    /\ Wizard(1)
    /\ user_profile' = Put(Put(Put(user_profile, "current_role", ""), "years_exp", 2),
                           "user_type", "University Student")
    /\ onboarding_step' = 2
    /\ UNCHANGED <<onboarding_complete, quick_mode, user_skills, practice_freq,
                   target_careers>>
    /\ Frame

GoalsBack ==
    /\ Wizard(2)
    /\ onboarding_step' = 1
    /\ UNCHANGED <<onboarding_complete, user_profile, quick_mode, user_skills,
                   practice_freq, target_careers>>
    /\ Frame

GoalsNext ==
    /\ Wizard(2)
    /\ \E target_industries \in IndustryChoices :
         \E chosen \in Selections(available_careers(target_industries),
                                  IF MaxTargets < max_selections THEN MaxTargets
                                  ELSE max_selections) :
             /\ user_profile' = Put(Put(Put(user_profile,
                                       "target_industries", target_industries),
                                       "target_careers", chosen),
                                       "timeline", "Within 6 months")
             /\ target_careers' = chosen
    /\ ShowSkillsStep
    /\ UNCHANGED onboarding_complete
    /\ Frame

ToggleQuickMode ==
    /\ Wizard(3)
    /\ quick_mode' = ~ quick_mode
    /\ user_skills' = RenderedSkills(user_skills, quick_mode')
    /\ practice_freq' = RenderedFreq(practice_freq, quick_mode')
    /\ UNCHANGED <<onboarding_step, onboarding_complete, user_profile, target_careers>>
    /\ Frame

MoveSlider ==
    /\ Wizard(3)
    /\ \E skill \in skills_to_show(quick_mode), level \in SliderStops :
         user_skills' = RenderedSkills([user_skills EXCEPT ![skill] = level], quick_mode)
    /\ practice_freq' = RenderedFreq(practice_freq, quick_mode)
    /\ UNCHANGED <<onboarding_step, onboarding_complete, user_profile, quick_mode,
                   target_careers>>
    /\ Frame

SelectPractice ==
    /\ Wizard(3)
    /\ \E skill \in skills_to_show(quick_mode), i \in DOMAIN freq_opts :
         practice_freq' = RenderedFreq([practice_freq EXCEPT ![skill] = freq_opts[i]],
                                       quick_mode)
    /\ user_skills' = RenderedSkills(user_skills, quick_mode)
    /\ UNCHANGED <<onboarding_step, onboarding_complete, user_profile, quick_mode,
                   target_careers>>
    /\ Frame

SkillsBack ==
    /\ Wizard(3)
    /\ onboarding_step' = 2
    /\ UNCHANGED <<onboarding_complete, user_profile, quick_mode, user_skills,
                   practice_freq, target_careers>>
    /\ Frame

SkillsNext ==
    /\ Wizard(3)
    /\ onboarding_step' = 4
    /\ UNCHANGED <<onboarding_complete, user_profile, quick_mode, user_skills,
                   practice_freq, target_careers>>
    /\ Frame

ValuesBack ==
    /\ Wizard(4)
    /\ ShowSkillsStep
    /\ UNCHANGED <<onboarding_complete, user_profile, target_careers>>
    /\ Frame

\* the completion button offered on the skills step as well
CompleteAssessment_AtSkills ==
    /\ (Wizard(3) \/ Wizard(4))
    /\ user_profile' = Put(Put(user_profile, "work_values", <<>>), "life_priority", "")
    /\ onboarding_complete' = TRUE
    /\ UNCHANGED <<onboarding_step, quick_mode, user_skills, practice_freq,
                   target_careers>>
    /\ Frame

CompleteAssessment ==
    /\ Wizard(4)
    /\ user_profile' = Put(Put(user_profile, "work_values", <<>>), "life_priority", "")
    /\ onboarding_complete' = TRUE
    /\ UNCHANGED <<onboarding_step, quick_mode, user_skills, practice_freq,
                   target_careers>>
    /\ Frame

\* a restart that also forgets the ratings and the chat
RestartAssessment_ClearsSession ==
    /\ onboarding_complete
    /\ onboarding_complete' = FALSE
    /\ onboarding_step' = 0
    /\ user_skills' = InitialUserSkills
    /\ chat_history' = <<>>
    /\ UNCHANGED <<user_profile, quick_mode, practice_freq, target_careers>>
    /\ UNCHANGED <<catalogs, pc, op, arg, ret>>

RestartAssessment ==
    /\ onboarding_complete
    /\ onboarding_complete' = FALSE
    /\ onboarding_step' = 0
    /\ UNCHANGED <<user_profile, quick_mode, user_skills, practice_freq, target_careers>>
    /\ Frame

Next ==
    \/ GetStarted \/ SituationBack \/ SituationNext \/ GoalsBack \/ GoalsNext
    \/ ToggleQuickMode \/ MoveSlider \/ SelectPractice \/ SkillsBack \/ SkillsNext
    \/ ValuesBack \/ CompleteAssessment \/ RestartAssessment

Spec == Init /\ [][Next]_vars

-----------------------------------------------------------------------------
(* Claims about the session, checked under Spec *)

EveryCatalogSkillRated ==
    \A skill \in Keys(SKILLS_DATA) :
        /\ skill \in DOMAIN user_skills
        /\ user_skills[skill] \in 0..100

(* C19: the user-skill profile is created with every catalog skill rated    *)
(* 50, and in every state the session reaches through wizard steps, slider  *)
(* updates, Quick Mode toggles and restarts every catalog skill has an      *)
(* integer rating between 0 and 100.                                        *)
C19_ProfileTotalAndBounded ==
    /\ \A skill \in Keys(SKILLS_DATA) :
          skill \in DOMAIN user_skills /\ user_skills[skill] = 50
    /\ [] EveryCatalogSkillRated

\* after a completed assessment in Quick Mode with "A" moved to the top and
\* "B" to the bottom, the assessment was restarted
C19_Witness ==
    /\ Wizard(0)
    /\ "work_values" \in Keys(user_profile)
    /\ quick_mode
    /\ user_skills["A"] = 100 /\ user_skills["B"] = 0 /\ user_skills["C"] = 50

-----------------------------------------------------------------------------
(* The v2 career explorer: the matcher's list, re-sorted on request.  The   *)
(* time-to-entry labels are compared as Python compares strings, character  *)
(* by character in code-point order.                                        *)

Digits == <<"0","1","2","3","4","5","6","7","8","9">>

\* the characters of the labels in code-point order
CodePointOrder == <<" ", "-">> \o Digits \o Lowers

ord(c) == CHOOSE i \in DOMAIN CodePointOrder : CodePointOrder[i] = c

\* the characters of a string literal: the time-to-entry labels of the
\* catalog, the trigger words and the messages of the consultation
Chars(s) ==
    CASE s = "3-12 months" -> <<"3","-","1","2"," ","m","o","n","t","h","s">>
      [] s = "6-24 months" -> <<"6","-","2","4"," ","m","o","n","t","h","s">>
      [] s = "12-24 months" -> <<"1","2","-","2","4"," ","m","o","n","t","h","s">>
      [] s = "24-48 months" -> <<"2","4","-","4","8"," ","m","o","n","t","h","s">>
      [] s = "roi" -> <<"r","o","i">>
      [] s = "worth" -> <<"w","o","r","t","h">>
      [] s = "invest" -> <<"i","n","v","e","s","t">>
      [] s = "course" -> <<"c","o","u","r","s","e">>
      [] s = "learn" -> <<"l","e","a","r","n">>
      [] s = "train" -> <<"t","r","a","i","n">>
      [] s = "gap" -> <<"g","a","p">>
      [] s = "improve" -> <<"i","m","p","r","o","v","e">>
      [] s = "weak" -> <<"w","e","a","k">>
      [] s = "salary" -> <<"s","a","l","a","r","y">>
      [] s = "money" -> <<"m","o","n","e","y">>
      [] s = "earn" -> <<"e","a","r","n">>
      [] s = "What's my best skill ROI?" -> <<"W","h","a","t","'","s"," ","m","y"," ","b","e","s","t"," ","s","k","i","l","l"," ","R","O","I","?">>
      [] s = "What courses should I take?" -> <<"W","h","a","t"," ","c","o","u","r","s","e","s"," ","s","h","o","u","l","d"," ","I"," ","t","a","k","e","?">>
      [] s = "Show my skill gaps" -> <<"S","h","o","w"," ","m","y"," ","s","k","i","l","l"," ","g","a","p","s">>
      [] s = "Salary potential?" -> <<"S","a","l","a","r","y"," ","p","o","t","e","n","t","i","a","l","?">>
      [] s = "ROI" -> <<"R","O","I">>
      [] s = "hello" -> <<"h","e","l","l","o">>
      [] s = "salary gap" -> <<"s","a","l","a","r","y"," ","g","a","p">>
      [] s = "Is it worth a course?" -> <<"I","s"," ","i","t"," ","w","o","r","t","h"," ","a"," ","c","o","u","r","s","e","?">>
      [] s = "how much will I earn" -> <<"h","o","w"," ","m","u","c","h"," ","w","i","l","l"," ","I"," ","e","a","r","n">>

StrLt_ByLength(a, b) == Len(a) < Len(b)

\* a < b on strings
RECURSIVE StrLt(_, _)
StrLt(a, b) ==
    IF b = <<>> THEN FALSE
    ELSE IF a = <<>> THEN TRUE
    ELSE IF ord(Head(a)) < ord(Head(b)) THEN TRUE
    ELSE IF ord(Head(b)) < ord(Head(a)) THEN FALSE
    ELSE StrLt(Tail(a), Tail(b))

\* list.sort(key=...) on a list of <<string key, item>> pairs: ascending,
\* items with equal keys keep their order
RECURSIVE InsertByLabel(_, _)
InsertByLabel(x, sorted) ==
    IF sorted = <<>> THEN <<x>>
    ELSE IF StrLt(x[1], Head(sorted)[1]) THEN <<x>> \o sorted
    ELSE <<Head(sorted)>> \o InsertByLabel(x, Tail(sorted))

RECURSIVE SortByLabel(_)
SortByLabel(keyed) ==
    IF keyed = <<>> THEN <<>>
    ELSE InsertByLabel(keyed[Len(keyed)], SortByLabel(SubSeq(keyed, 1, Len(keyed) - 1)))

sort_options == <<"Match %", "Salary (High to Low)", "Growth Rate", "Time to Entry">>

\* v2: the career explorer tab
career_explorer_v2(filter_categories, sort_by) ==
    LET matches == get_career_matches_v2(user_skills, filter_categories)
    IN  IF sort_by = "Salary (High to Low)"
        THEN Items(SortDesc([i \in 1..Len(matches) |-> <<Num(matches[i].salary), matches[i]>>]))
        ELSE IF sort_by = "Growth Rate"
        THEN Items(SortDesc([i \in 1..Len(matches) |-> <<Num(matches[i].growth), matches[i]>>]))
        ELSE IF sort_by = "Time to Entry"
        THEN Items(SortByLabel([i \in 1..Len(matches) |->
                                   <<Chars(matches[i].time_to_entry), matches[i]>>]))
        ELSE matches

InitExplorer ==
    /\ SKILLS_DATA = SkillCatalog
    /\ MainPage
    /\ practice_freq = <<>>
    /\ target_careers = <<>>
    /\ pc = "call"
    /\ ret = <<>>
    /\ CAREER_DATA \in Catalogs(MaxCareers)
    /\ user_skills \in {MkSkills(a, b) : a \in {0, 50, 100}, b \in {0, 50, 100}}
    /\ op = "career_explorer_v2"
    /\ arg \in IndustrySets \X {sort_options[i] : i \in DOMAIN sort_options}

CareerExplorerV2 ==
    /\ pc = "call" /\ op = "career_explorer_v2"
    /\ ret' = career_explorer_v2(arg[1], arg[2])
    /\ pc' = "done"
    /\ UNCHANGED <<session, op, arg>>

NextExplorer == CareerExplorerV2

SpecExplorer == InitExplorer /\ [][NextExplorer]_vars

\* the list as the matcher ranked it, and an entry's place in it
MatchRanked == get_career_matches_v2(user_skills, arg[1])

MatchRank(e) == CHOOSE i \in DOMAIN MatchRanked : MatchRanked[i] = e

(* C21: the explorer's list re-sorted by salary is in descending order of   *)
(* salary, by growth rate in descending order of growth, by time to entry   *)
(* in ascending string order of the label, so that "12-24 months" comes     *)
(* before "3-12 months"; it holds the same entries as the match-ranked list *)
(* and entries with equal keys keep their match-ranked order.               *)
C21_ExplorerResort ==
    Returned("career_explorer_v2") =>
        /\ Len(ret) = Len(MatchRanked)
        /\ {ret[i] : i \in DOMAIN ret} = {MatchRanked[i] : i \in DOMAIN MatchRanked}
        /\ \A i, j \in DOMAIN ret :
              i < j =>
                /\ arg[2] = "Salary (High to Low)" =>
                      \/ ret[i].salary > ret[j].salary
                      \/ /\ ret[i].salary = ret[j].salary
                         /\ MatchRank(ret[i]) < MatchRank(ret[j])
                /\ arg[2] = "Growth Rate" =>
                      \/ ret[i].growth > ret[j].growth
                      \/ /\ ret[i].growth = ret[j].growth
                         /\ MatchRank(ret[i]) < MatchRank(ret[j])
                /\ arg[2] = "Time to Entry" =>
                      /\ \/ StrLt(Chars(ret[i].time_to_entry), Chars(ret[j].time_to_entry))
                         \/ /\ ret[i].time_to_entry = ret[j].time_to_entry
                            /\ MatchRank(ret[i]) < MatchRank(ret[j])
                      /\ ~ (/\ ret[i].time_to_entry = "3-12 months"
                            /\ ret[j].time_to_entry = "12-24 months")

C21_Witness ==
    /\ Returned("career_explorer_v2")
    /\ arg[2] = "Time to Entry"
    /\ Len(ret) = 2
    /\ ret[1].time_to_entry = "12-24 months"
    /\ ret[2].time_to_entry = "3-12 months"
    /\ MatchRanked = <<ret[2], ret[1]>>
    /\ RLt(ret[1].match_pct, ret[2].match_pct)

-----------------------------------------------------------------------------
(* The v2 career consultation: the response generator and the chat          *)
(* handlers of the main page.  A response is the name of its template and   *)
(* the items the template is filled with.                                   *)

\* sub in s
Contains(s, sub) ==
    \E i \in 1..(Len(s) - Len(sub) + 1) : SubSeq(s, i, i + Len(sub) - 1) = sub

\* s[:n]
Take(s, n) == SubSeq(s, 1, IF Len(s) < n THEN Len(s) ELSE n)

IndexError == [exception |-> "IndexError"]

\* courses[0] of a skill without courses
RoiRaises(sorted_gaps) ==
    \E i \in DOMAIN sorted_gaps :
        /\ sorted_gaps[i][1] \in Keys(SKILLS_DATA)
        /\ Lookup(SKILLS_DATA, sorted_gaps[i][1]).courses = <<>>

\* the ROI template: the three largest gaps
RECURSIVE RoiItems(_, _)
RoiItems(sorted_gaps, items) ==
    IF sorted_gaps = <<>> THEN items
    ELSE LET skill == Head(sorted_gaps)[1]
             gap_info == Head(sorted_gaps)[2]
         IN  IF skill \notin Keys(SKILLS_DATA) THEN RoiItems(Tail(sorted_gaps), items)
             ELSE RoiItems(Tail(sorted_gaps),
                           Append(items,
                                  [skill |-> skill, gap |-> gap_info.gap,
                                   premium |-> Lookup(SKILLS_DATA, skill).salary_premium,
                                   demand |-> Lookup(SKILLS_DATA, skill).demand_trend,
                                   top_course |-> Lookup(SKILLS_DATA, skill).courses[1].name]))

\* the learning-path template: the first two High-priority gaps
RECURSIVE HighPriority(_)
HighPriority(skill_gaps) ==
    IF skill_gaps = <<>> THEN <<>>
    ELSE IF Head(skill_gaps)[2].priority = "High"
         THEN <<Head(skill_gaps)>> \o HighPriority(Tail(skill_gaps))
         ELSE HighPriority(Tail(skill_gaps))

RECURSIVE LearningItems(_)
LearningItems(high_priority) ==
    IF high_priority = <<>> THEN <<>>
    ELSE LET skill == Head(high_priority)[1]
         IN  IF skill \in Keys(SKILLS_DATA)
             THEN <<[skill |-> skill,
                     courses |-> Take(Lookup(SKILLS_DATA, skill).courses, 2)]>>
                  \o LearningItems(Tail(high_priority))
             ELSE LearningItems(Tail(high_priority))

\* the gap-analysis template: every positive gap, largest first
RECURSIVE GapItems(_)
GapItems(sorted_gaps) ==
    IF sorted_gaps = <<>> THEN <<>>
    ELSE IF Head(sorted_gaps)[2].gap > 0
         THEN <<Head(sorted_gaps)>> \o GapItems(Tail(sorted_gaps))
         ELSE GapItems(Tail(sorted_gaps))

\* the salary template: the first three target careers of the profile
RECURSIVE SalaryItems(_)
SalaryItems(careers) ==
    IF careers = <<>> THEN <<>>
    ELSE IF Head(careers) \in Keys(CAREER_DATA)
         THEN LET data == Lookup(CAREER_DATA, Head(careers))
              IN  <<[career |-> Head(careers), median_salary |-> data.median_salary,
                     growth_rate |-> data.growth_rate, education |-> data.education]>>
                  \o SalaryItems(Tail(careers))
         ELSE SalaryItems(Tail(careers))

GapsByGapDesc(skill_gaps) ==
    Items(SortDesc([i \in 1..Len(skill_gaps) |-> <<Num(skill_gaps[i][2].gap), skill_gaps[i]>>]))

Response(template, items) == [template |-> template, items |-> items]

Raises(response) == "exception" \in DOMAIN response

\* the salary triggers tested before the course triggers
generate_consultation_response_SalaryFirst(user_message, profile, skill_gaps) ==
    LET message_lower == lower(user_message)
        targets == IF "target_careers" \in Keys(profile)
                   THEN Lookup(profile, "target_careers") ELSE <<>>
        current_role == IF "current_role" \in Keys(profile)
                        THEN Lookup(profile, "current_role") ELSE "Not specified"
        in(word) == Contains(message_lower, Chars(word))
    IN  IF in("roi") \/ in("worth") \/ in("invest")
        THEN IF RoiRaises(Take(GapsByGapDesc(skill_gaps), 3)) THEN IndexError
             ELSE Response("roi", RoiItems(Take(GapsByGapDesc(skill_gaps), 3), <<>>))
        ELSE IF in("salary") \/ in("money") \/ in("earn")
        THEN Response("salary", SalaryItems(Take(targets, 3)))
        ELSE IF in("course") \/ in("learn") \/ in("train")
        THEN Response("courses", LearningItems(Take(HighPriority(skill_gaps), 2)))
        ELSE IF in("gap") \/ in("improve") \/ in("weak")
        THEN Response("gaps", GapItems(GapsByGapDesc(skill_gaps)))
        ELSE Response("default", <<current_role, Take(targets, 3)>>)

generate_consultation_response(user_message, profile, skill_gaps) ==
    LET message_lower == lower(user_message)
        targets == IF "target_careers" \in Keys(profile)
                   THEN Lookup(profile, "target_careers") ELSE <<>>
        current_role == IF "current_role" \in Keys(profile)
                        THEN Lookup(profile, "current_role") ELSE "Not specified"
        in(word) == Contains(message_lower, Chars(word))
    IN  IF in("roi") \/ in("worth") \/ in("invest")
        THEN IF RoiRaises(Take(GapsByGapDesc(skill_gaps), 3)) THEN IndexError
             ELSE Response("roi", RoiItems(Take(GapsByGapDesc(skill_gaps), 3), <<>>))
        ELSE IF in("course") \/ in("learn") \/ in("train")
        THEN Response("courses", LearningItems(Take(HighPriority(skill_gaps), 2)))
        ELSE IF in("gap") \/ in("improve") \/ in("weak")
        THEN Response("gaps", GapItems(GapsByGapDesc(skill_gaps)))
        ELSE IF in("salary") \/ in("money") \/ in("earn")
        THEN Response("salary", SalaryItems(Take(targets, 3)))
        ELSE Response("default", <<current_role, Take(targets, 3)>>)

quick_questions ==
    <<"What's my best skill ROI?", "What courses should I take?",
      "Show my skill gaps", "Salary potential?">>

\* what the text input may hold when Send is pressed
TypedMessages ==
    {"", "roi", "ROI", "learn", "earn", "hello", "salary gap",
     "Is it worth a course?", "how much will I earn"}

\* exchanges a session's chat may hold
MaxChat == 1

\* "Get skill gaps for context"
consult_skill_gaps == AllGapsLoop(user_skills, target_careers, <<>>)

\* the two appends around the call; an exception leaves the first one
Exchange(history, content) ==
    LET response == generate_consultation_response(Chars(content), user_profile,
                                                   consult_skill_gaps)
        asked == Append(history, [role |-> "user", content |-> content])
    IN  IF Raises(response) THEN asked
        ELSE Append(asked, [role |-> "assistant", content |-> response])

InitConsult ==
    /\ CAREER_DATA = WizardCatalog
    /\ SKILLS_DATA = SkillCatalog
    /\ onboarding_step = 4
    /\ onboarding_complete = TRUE
    /\ chat_history = <<>>
    /\ quick_mode \in BOOLEAN
    /\ user_skills \in {MkSkills(0, 0) @@ [k \in {"C"} |-> 50],
                        MkSkills(50, 35), MkSkills(100, Absent)}
    /\ practice_freq \in {MkFreq(NoEntry, NoEntry), MkFreq(OptOften, OptRarelyNever)}
    /\ target_careers \in TargetLists(MaxTargets)
    /\ user_profile = Put(AnsweredProfile, "target_careers", target_careers)
    /\ NoCall

ChatFrame ==
    UNCHANGED <<catalogs, onboarding_step, onboarding_complete, user_profile, quick_mode,
                user_skills, practice_freq, target_careers, pc, op, arg, ret>>

SendMessage ==
    /\ onboarding_complete
    /\ Len(chat_history) < 2 * MaxChat
    /\ \E user_input \in TypedMessages :
         chat_history' = IF user_input # "" THEN Exchange(chat_history, user_input)
                         ELSE chat_history
    /\ ChatFrame

ClearChat ==
    /\ onboarding_complete
    /\ chat_history' = <<>>
    /\ ChatFrame

QuickQuestion ==
    /\ onboarding_complete
    /\ Len(chat_history) < 2 * MaxChat
    /\ \E i \in DOMAIN quick_questions :
         chat_history' = Exchange(chat_history, quick_questions[i])
    /\ ChatFrame

NextConsult ==
    \/ SendMessage
    \/ ClearChat
    \/ QuickQuestion
    \/ RestartAssessment

SpecConsult == InitConsult /\ [][NextConsult]_vars

-----------------------------------------------------------------------------
(* Claims about the wizard's navigation, checked under Spec *)

steps == <<"Welcome", "Situation", "Goals", "Skills", "Values">>

StepInRange == onboarding_step \in 0..(Len(steps) - 1)

(* C23: the wizard step is always one of 0..4; a step in which it changes   *)
(* is the press of a button: Start or Next raises it by exactly 1, Back     *)
(* lowers it by exactly 1, Restart sets it to 0; moving a slider, choosing  *)
(* a practice frequency, ticking quick mode or completing the assessment    *)
(* leaves it unchanged.                                                     *)
C23_StepByStep ==
    /\ StepInRange
    /\ [][/\ StepInRange'
          /\ onboarding_step' # onboarding_step =>
                \/ ~ onboarding_complete /\ onboarding_step' = onboarding_step + 1
                \/ ~ onboarding_complete /\ onboarding_step' = onboarding_step - 1
                \/ onboarding_complete /\ onboarding_step' = 0
          /\ (GetStarted \/ SituationNext \/ GoalsNext \/ SkillsNext) =>
                onboarding_step' = onboarding_step + 1
          /\ (SituationBack \/ GoalsBack \/ SkillsBack \/ ValuesBack) =>
                onboarding_step' = onboarding_step - 1
          /\ RestartAssessment => onboarding_step' = 0
          /\ (ToggleQuickMode \/ MoveSlider \/ SelectPractice \/ CompleteAssessment) =>
                onboarding_step' = onboarding_step]_vars

\* back at the welcome step after a completed assessment was restarted
C23_Witness ==
    /\ onboarding_step = 0
    /\ ~ onboarding_complete
    /\ "life_priority" \in Keys(user_profile)

(* C24: onboarding_complete is false at the start; it becomes true only in  *)
(* a step taken at wizard step 4 that writes the values answers (Complete   *)
(* Assessment), and false again only in a step that sets the step to 0      *)
(* (Restart); while the wizard is shown the step moves by at most one, so   *)
(* the main page is reached from step 0 only through steps 1, 2, 3 and 4.   *)
C24_CompleteOnlyAtLastStep ==
    /\ ~ onboarding_complete /\ onboarding_step = 0
    /\ [][/\ (~ onboarding_complete /\ onboarding_complete') =>
                /\ onboarding_step = 4 /\ onboarding_step' = 4
                /\ "life_priority" \in Keys(user_profile')
          /\ (onboarding_complete /\ ~ onboarding_complete') => onboarding_step' = 0
          /\ onboarding_complete' => onboarding_step' = 4
          /\ (~ onboarding_complete /\ ~ onboarding_complete') =>
                (onboarding_step' - onboarding_step) \in {-1, 0, 1}]_vars

\* the main page shown, with the answers of every wizard step in the session
C24_Witness ==
    /\ onboarding_complete
    /\ onboarding_step = 4
    /\ {"user_type", "timeline", "life_priority"} \subseteq Keys(user_profile)
    /\ target_careers # <<>>
    /\ DOMAIN practice_freq = Keys(SKILLS_DATA)

-----------------------------------------------------------------------------
(* Claims about the main page's session, checked under SpecConsult *)

(* C25: a step in which onboarding_complete goes from true to false (the    *)
(* Restart or Retake button) sets the step to 0 and leaves the skill        *)
(* ratings, the practice frequencies, the target careers, the profile       *)
(* answers and the chat history, and everything else, as they were.         *)
C25_RestartKeepsSession ==
    [][(onboarding_complete /\ ~ onboarding_complete') =>
          /\ onboarding_step' = 0
          /\ UNCHANGED <<user_skills, practice_freq, target_careers, user_profile,
                         chat_history>>
          /\ UNCHANGED <<catalogs, quick_mode>>]_vars

\* restarted with ratings, practice frequencies, targets and a chat in the session
C25_Witness ==
    /\ ~ onboarding_complete
    /\ onboarding_step = 0
    /\ Len(chat_history) = 2
    /\ user_skills = MkSkills(50, 35)
    /\ practice_freq = MkFreq(OptOften, OptRarelyNever)
    /\ Len(target_careers) = 2
    /\ Lookup(user_profile, "target_careers") = target_careers

\* the trigger groups in the order the claim gives them
TriggerGroups ==
    << <<"roi", {"roi", "worth", "invest"}>>,
       <<"courses", {"course", "learn", "train"}>>,
       <<"gaps", {"gap", "improve", "weak"}>>,
       <<"salary", {"salary", "money", "earn"}>> >>

MatchingGroups(content) ==
    {g \in DOMAIN TriggerGroups :
        \E w \in TriggerGroups[g][2] : Contains(lower(Chars(content)), Chars(w))}

ExpectedTemplate(content) ==
    LET matching == MatchingGroups(content)
    IN  IF matching = {} THEN "default"
        ELSE TriggerGroups[CHOOSE g \in matching : \A h \in matching : g <= h][1]

(* C27: every response in the chat follows the message it answers and uses *)
(* the template of the first group, in the order ROI, courses, gaps,        *)
(* salary, one of whose trigger words is a substring of the lower-cased     *)
(* message, and the default template when no group matches; "learn" gets    *)
(* the courses template although it contains "earn", and "ROI" in capitals  *)
(* gets the ROI template.                                                   *)
C27_FirstMatchingGroup ==
    \A i \in DOMAIN chat_history :
        chat_history[i].role = "assistant" =>
            /\ i > 1 /\ chat_history[i - 1].role = "user"
            /\ LET asked == chat_history[i - 1].content
                   template == chat_history[i].content.template
               IN  /\ template = ExpectedTemplate(asked)
                   /\ asked = "learn" => template = "courses"
                   /\ asked = "earn" => template = "salary"
                   /\ asked = "ROI" => template = "roi"
                   /\ asked = "salary gap" => template = "gaps"
                   /\ asked = "hello" => template = "default"

\* "learn" was sent and answered
C27_Witness ==
    /\ Len(chat_history) = 2
    /\ chat_history[1] = [role |-> "user", content |-> "learn"]
    /\ chat_history[2].role = "assistant"
    /\ chat_history[2].content.template = "courses"
    /\ Cardinality(MatchingGroups("learn")) = 2

-----------------------------------------------------------------------------
(* Claims about the practice options of the skills step, checked under      *)
(* SpecMatch                                                                *)

\* the multiplier each option of the select box is labelled with
LabelledWeight(option) ==
    IF option = OptOften THEN Rat(12, 10)
    ELSE IF option = OptRarelyNever THEN Rat(8, 10)
    ELSE Rat(10, 10)

LabelledRatio(entry) ==
    LET rating == Get(user_skills, entry[1], 0)
        option == Get(practice_freq, entry[1], OptSometimes)
    IN  RMin(RDiv(RMin(Num(100), RMul(Num(rating), LabelledWeight(option))),
                  Num(entry[2])),
             Num(1))

LabelledMatch(skills) ==
    LET weight(i) == Rat(skills[i][2], 100)
    IN  RMul(Num(100),
             RDiv(RSum([i \in 1..Len(skills) |-> RMul(LabelledRatio(skills[i]), weight(i))]),
                  RSum([i \in 1..Len(skills) |-> weight(i)])))

LabelledReadiness(skills) ==
    RMul(Num(100),
         RDiv(RSum([i \in 1..Len(skills) |-> LabelledRatio(skills[i])]), Num(Len(skills))))

\* the scores agree with the labelled multipliers of the options in use
ScoresAsLabelled ==
    /\ Returned("get_career_matches") =>
          \A i \in DOMAIN ret :
              AllPositive(SkillsOf(ret[i].career)) =>
                  ret[i].match_pct = LabelledMatch(SkillsOf(ret[i].career))
    /\ Returned("dashboard_readiness") =>
          \A i \in DOMAIN ret :
              AllPositive(SkillsOf(ret[i].career)) =>
                  ret[i].readiness = LabelledReadiness(SkillsOf(ret[i].career))

OptionsStored(options) == \A k \in DOMAIN practice_freq : practice_freq[k] \in options

(* C26: when every stored practice frequency is one of the options of the  *)
(* select box, match_pct and the dashboard readiness are computed from      *)
(* min(100, rating * multiplier) with multiplier 1.2 for "Often (weekly+)", *)
(* 1.0 for "Sometimes" and 0.8 for "Rarely/Never".                          *)
C26_OptionsWeightedAsLabelled ==
    OptionsStored({OptOften, OptSometimes, OptRarelyNever}) => ScoresAsLabelled

\* the part that holds: "Sometimes" and "Rarely/Never" are weighted as labelled
C26_SometimesAndRarelyAsLabelled ==
    OptionsStored({OptSometimes, OptRarelyNever}) => ScoresAsLabelled

C26_SometimesAndRarelyWitness ==
    /\ Returned("get_career_matches")
    /\ Len(CAREER_DATA) = 1
    /\ SkillsOf(CareerNames[1]) = <<<<"B", 60>>>>
    /\ user_skills = MkSkills(50, 50)
    /\ practice_freq = MkFreq(OptSometimes, OptRarelyNever)
    /\ Len(ret) = 1
    /\ ret[1].match_pct = Rat(200, 3)

-----------------------------------------------------------------------------
(* Specification of the matcher over every required level: one career       *)
(* requiring "A" at any level of 1..100 and "B" at 50.                      *)

RequiredLevels == 1..MaxLevel

CareerRequiring(r) ==
    << <<CareerNames[1],
         [category |-> "Technology", skills |-> <<<<"A", r>>, <<"B", 50>>>>,
          median_salary |-> 130000, growth_rate |-> 25,
          education |-> "Bachelor's", time_to_entry |-> "6-24 months"]>> >>

InitLevels ==
    /\ SKILLS_DATA = SkillCatalog
    /\ MainPage
    /\ target_careers = <<>>
    /\ pc = "call"
    /\ ret = <<>>
    /\ op = "get_career_matches"
    /\ arg = {"Technology"}
    /\ \E r \in RequiredLevels : CAREER_DATA = CareerRequiring(r)
    /\ \E a \in Levels, b \in {0, 50} : user_skills = MkSkills(a, b)
    /\ \E fa \in {NoEntry, OptOften, often, rarely} : practice_freq = MkFreq(fa, NoEntry)

NextLevels == CareerMatches

SpecLevels == InitLevels /\ [][NextLevels]_vars

(* C29: in every entry get_career_matches returns, match_pct = 100 implies  *)
(* high_skill_gaps = 0, for ratings 0..100, every practice label and        *)
(* required levels 1..100: a skill whose raw rating is more than 30 below   *)
(* its requirement cannot be lifted to the requirement by the largest       *)
(* multiplier, 1.2.                                                         *)
C29_FullMatchNoHighGap ==
    Returned("get_career_matches") =>
        \A i \in DOMAIN ret :
            ret[i].match_pct = Num(100) => ret[i].high_skill_gaps = 0

\* a full match reached only through the practice multiplier: the raw rating
\* is 16 below the requirement, a Medium gap
C29_Witness ==
    /\ Returned("get_career_matches")
    /\ SkillsOf(CareerNames[1]) = <<<<"A", 100>>, <<"B", 50>>>>
    /\ user_skills = MkSkills(84, 50)
    /\ practice_freq = MkFreq(often, NoEntry)
    /\ Len(ret) = 1
    /\ ret[1].match_pct = Num(100)
    /\ ret[1].high_skill_gaps = 0
    /\ Lookup(calculate_skill_gaps(user_skills, CareerNames[1]), "A").priority = "Medium"

-----------------------------------------------------------------------------
(* Two sessions compared: the engine is called, the user changes one answer *)
(* of the skills step, and the engine is called again.  ret then holds both *)
(* results.                                                                 *)

\* ratings on both sides of the priority thresholds of a requirement of 80
RerateLevels == {0, 49, 50, 64, 65, 100}

InitCompare ==
    /\ SKILLS_DATA = SkillCatalog
    /\ MainPage
    /\ pc = "call"
    /\ ret = <<>>
    /\ CAREER_DATA \in Catalogs(1) \cup {WizardCatalog}
    /\ \E a \in RerateLevels \cup {Absent}, b \in {Absent, 0, 50} :
          user_skills = MkSkills(a, b)
    /\ \E fa \in {NoEntry, OptOften, often, rarely}, fb \in {NoEntry, OptRarelyNever} :
          practice_freq = MkFreq(fa, fb)
    /\ \/ op = "calculate_skill_gaps" /\ arg = CareerNames[1] /\ target_careers = <<>>
       \/ /\ op = "get_career_matches"
          /\ arg = {"Technology", "Healthcare", "Business"}
          /\ target_careers = <<>>
       \/ op = "dashboard_readiness" /\ arg = <<>> /\ target_careers \in TargetLists(1)

\* the slider of one skill moved up
RaiseRating ==
    /\ pc = "done"
    /\ \E skill \in {"A", "B"}, level \in RerateLevels :
         /\ level > Get(user_skills, skill, 0)
         /\ user_skills' = [k \in DOMAIN user_skills \cup {skill} |->
                               IF k = skill THEN level ELSE user_skills[k]]
    /\ pc' = "rated"
    /\ UNCHANGED <<catalogs, wizard, practice_freq, target_careers, op, arg, ret>>

\* the practice select box of one skill set to another label
ChangePractice ==
    /\ pc = "done"
    /\ \E skill \in {"A", "B"}, label \in {OptOften, OptSometimes, OptRarelyNever, often, never} :
         /\ label # Get(practice_freq, skill, NoEntry)
         /\ practice_freq' = [k \in DOMAIN practice_freq \cup {skill} |->
                                 IF k = skill THEN label ELSE practice_freq[k]]
    /\ pc' = "practised"
    /\ UNCHANGED <<catalogs, wizard, user_skills, target_careers, op, arg, ret>>

Changed == pc \in {"rated", "practised"}

SkillGapsAfter ==
    /\ Changed /\ op = "calculate_skill_gaps"
    /\ ret' = <<ret, calculate_skill_gaps(user_skills, arg)>>
    /\ pc' = "compared"
    /\ UNCHANGED <<session, op, arg>>

CareerMatchesAfter ==
    /\ Changed /\ op = "get_career_matches"
    /\ ret' = <<ret, get_career_matches(user_skills, arg)>>
    /\ pc' = "compared"
    /\ UNCHANGED <<session, op, arg>>

DashboardReadinessAfter ==
    /\ Changed /\ op = "dashboard_readiness"
    /\ ret' = <<ret, dashboard_readiness>>
    /\ pc' = "compared"
    /\ UNCHANGED <<session, op, arg>>

NextPractice ==
    \/ SkillGaps \/ CareerMatches \/ DashboardReadiness
    \/ ChangePractice
    \/ SkillGapsAfter \/ CareerMatchesAfter \/ DashboardReadinessAfter

SpecPractice == InitCompare /\ [][NextPractice]_vars

NextRerate ==
    \/ SkillGaps \/ CareerMatches \/ DashboardReadiness
    \/ RaiseRating
    \/ SkillGapsAfter \/ CareerMatchesAfter \/ DashboardReadinessAfter

SpecRerate == InitCompare /\ [][NextRerate]_vars

Compared(f) == pc = "compared" /\ op = f

\* the entries of the two results that belong to the same career
SameCareer(x, y) == x.career = y.career

Careers(list) == {list[i].career : i \in DOMAIN list}

(* C28: two sessions with the same ratings and different practice           *)
(* frequencies get the same calculate_skill_gaps output and, for every      *)
(* career, the same high_skill_gaps count from get_career_matches and from  *)
(* the dashboard.                                                           *)
C28_GapsIgnorePractice ==
    /\ Compared("calculate_skill_gaps") => ret[1] = ret[2]
    /\ (Compared("get_career_matches") \/ Compared("dashboard_readiness")) =>
          /\ Careers(ret[1]) = Careers(ret[2])
          /\ \A i \in DOMAIN ret[1], j \in DOMAIN ret[2] :
                SameCareer(ret[1][i], ret[2][j]) =>
                    IF op = "get_career_matches"
                    THEN ret[1][i].high_skill_gaps = ret[2][j].high_skill_gaps
                    ELSE ret[1][i].high_gaps = ret[2][j].high_gaps

\* the practice label changed the match but not the count of high gaps
C28_Witness ==
    /\ Compared("get_career_matches")
    /\ Len(ret[1]) = 1 /\ Len(ret[2]) = 1
    /\ ret[1][1].match_pct # ret[2][1].match_pct
    /\ ret[1][1].high_skill_gaps = 1
    /\ ret[2][1].high_skill_gaps = 1

\* High above Medium above Low
Tier(priority) == IF priority = "High" THEN 3 ELSE IF priority = "Medium" THEN 2 ELSE 1

(* C30: with the practice frequencies fixed, after one skill's rating is    *)
(* raised and the others are left as they were, no career's weighted        *)
(* match_pct and no career's unweighted readiness is lower than before, no  *)
(* skill's gap is larger and no skill's priority is in a higher tier.       *)
C30_MonotoneInRatings ==
    /\ Compared("get_career_matches") =>
          \A i \in DOMAIN ret[1], j \in DOMAIN ret[2] :
              SameCareer(ret[1][i], ret[2][j]) =>
                  RLe(ret[1][i].match_pct, ret[2][j].match_pct)
    /\ Compared("dashboard_readiness") =>
          \A i \in DOMAIN ret[1], j \in DOMAIN ret[2] :
              SameCareer(ret[1][i], ret[2][j]) =>
                  RLe(ret[1][i].readiness, ret[2][j].readiness)
    /\ Compared("calculate_skill_gaps") =>
          /\ Keys(ret[1]) = Keys(ret[2])
          /\ \A skill \in Keys(ret[1]) :
                /\ Lookup(ret[2], skill).gap <= Lookup(ret[1], skill).gap
                /\ Tier(Lookup(ret[2], skill).priority) <= Tier(Lookup(ret[1], skill).priority)

\* a raised rating that lifted the match
C30_Witness ==
    /\ Compared("get_career_matches")
    /\ pc = "compared"
    /\ Len(ret[1]) = 1 /\ Len(ret[2]) = 1
    /\ RLt(ret[1][1].match_pct, ret[2][1].match_pct)
    /\ ret[2][1].high_skill_gaps < ret[1][1].high_skill_gaps

====
